---------------------------- MODULE Spec2Model ----------------------------
(***************************************************************************)
(* PRISM derivation pipeline: case ingestion, risk scoring, alert          *)
(* thresholding and forecasting over a MongoDB document store.             *)
(*                                                                         *)
(* Representation                                                          *)
(*   - a collection is a sequence of documents in insertion (natural)      *)
(*     order; update_one acts on the first document matching its filter;   *)
(*     cases_daily is a set, because its documents are never updated and   *)
(*     the order among equal sort keys is left open (see SortDateDesc).    *)
(*   - a document field that is absent is written NoDisease /              *)
(*     NoGranularity; a filter {"disease": D} matches only documents       *)
(*     whose disease is D, a filter without the key matches every one.     *)
(*   - an ISO date is the day number of the date in the year 2024, so      *)
(*     that the string order of ISO dates is the integer order.            *)
(*   - ratios (growth, volatility, death ratio) are in 1/1000, risk        *)
(*     scores in 1/1000000, case means in 1/1000; the weights 0.65, 0.25,  *)
(*     0.10 and the monthly multipliers are then exact integers.           *)
(*   - created_at / updated_at / generated_at timestamps are not part of   *)
(*     any key or filter and are left out of the documents.                *)
(***************************************************************************)
EXTENDS Integers, Sequences, FiniteSets, TLC

VARIABLES regions, cases, risk_scores, alerts, forecasts, last

vars == <<regions, cases, risk_scores, alerts, forecasts, last>>

(***************************************************************************)
(* Domains                                                                 *)
(***************************************************************************)
RegionIds == {"R1", "R2"}

Diseases == {"DENGUE", "COVID"}

\* the "disease" key is absent (or the argument is None)
NoDisease == "none"

\* the "granularity" key is absent (legacy yearly data)
NoGranularity == "untagged"

\* target_date is None; also the "" a batch returns when no date resolves
NoDate == 0

\* days before the first of each month of 2024
DaysBefore == <<0, 31, 60, 91, 121, 152, 182, 213, 244, 274, 305, 335>>

\* day number of the ISO date 2024-mm-dd
DayOfYear(mm, dd) == DaysBefore[mm] + dd

\* datetime.fromisoformat(date_str).month
MonthOf(d) == CHOOSE m \in 1..12 :
                /\ DaysBefore[m] < d
                /\ (m = 12 \/ d <= DaysBefore[m + 1])

(***************************************************************************)
(* Arithmetic helpers                                                      *)
(***************************************************************************)
Min(a, b) == IF a <= b THEN a ELSE b

Max(a, b) == IF a >= b THEN a ELSE b

Abs(a) == IF a >= 0 THEN a ELSE 0 - a

RECURSIVE SumSeq(_)
SumSeq(s) == IF s = <<>> THEN 0 ELSE Head(s) + SumSeq(Tail(s))

RECURSIVE SumSquares(_)
SumSquares(s) == IF s = <<>> THEN 0 ELSE Head(s) * Head(s) + SumSquares(Tail(s))

\* floor of the square root, by bisection on [lo, hi]
RECURSIVE SqrtBetween(_, _, _)
SqrtBetween(n, lo, hi) ==
    IF lo >= hi THEN lo
    ELSE LET mid == (lo + hi + 1) \div 2
         IN IF mid * mid <= n THEN SqrtBetween(n, mid, hi)
                              ELSE SqrtBetween(n, lo, mid - 1)

ISqrt(n) == SqrtBetween(n, 0, Min(n, 46340))

\* a / b rounded to the nearest integer, ties to even (a >= 0, b > 0)
RoundDiv(a, b) ==
    LET q == a \div b
        r == a % b
    IN IF 2 * r > b THEN q + 1
       ELSE IF 2 * r < b THEN q
       ELSE IF q % 2 = 0 THEN q ELSE q + 1

Reverse(s) == [i \in 1..Len(s) |-> s[Len(s) + 1 - i]]

SeqToSet(s) == {s[i] : i \in 1..Len(s)}

\* the documents of a collection matching a predicate, in natural order
Find(col, Match(_)) == SelectSeq(col, Match)

(***************************************************************************)
(* regions: upsert_regions                                                 *)
(***************************************************************************)
\* query_filter of upsert_regions: region_id, and disease when the region has one
RegionFilterMatches(doc, region) ==
    /\ doc.region_id = region.region_id
    /\ (region.disease # NoDisease => doc.disease = region.disease)

\* update_one(query_filter, {"$set": region}, upsert=True): a matching document
\* already carries every field of the region, otherwise the region is inserted
regions_update_one(col, region) ==
    IF \E i \in 1..Len(col) : RegionFilterMatches(col[i], region)
    THEN col
    ELSE Append(col, region)

upsert_regions(region) ==
    /\ regions' = regions_update_one(regions, region)
    /\ last' = [op |-> "upsert_regions", args |-> region,
                ret |-> [inserted |-> Len(regions') - Len(regions)], repeat |-> FALSE]
    /\ UNCHANGED <<cases, risk_scores, alerts, forecasts>>

(***************************************************************************)
(* cases_daily: upsert_cases                                               *)
(***************************************************************************)
\* query_filter of upsert_cases: region_id, date, and disease when the case has one
CaseFilterMatches(doc, case) ==
    /\ doc.region_id = case.region_id
    /\ doc.date = case.date
    /\ (case.disease # NoDisease => doc.disease = case.disease)

\* the filter of the pre-multi-disease schema with a $set update: the document
\* at (region_id, date) is overwritten by the incoming case
cases_update_one_no_disease(col, case) ==
    LET hit == {doc \in col : doc.region_id = case.region_id /\ doc.date = case.date}
    IN IF hit = {} THEN col \cup {case}
       ELSE (col \ {CHOOSE doc \in hit : TRUE}) \cup {case}

\* update_one(query_filter, {"$setOnInsert": case}, upsert=True)
cases_update_one(col, case) ==
    IF \E doc \in col : CaseFilterMatches(doc, case)
    THEN col
    ELSE col \cup {case}

upsert_cases(case) ==
    /\ cases' = cases_update_one(cases, case)
    /\ last' = [op |-> "upsert_cases",
                args |-> [region_id |-> case.region_id, date |-> case.date,
                          disease |-> case.disease],
                ret |-> [inserted |-> Cardinality(cases') - Cardinality(cases)],
                repeat |-> FALSE]
    /\ UNCHANGED <<regions, risk_scores, alerts, forecasts>>

(***************************************************************************)
(* cases_daily queries                                                     *)
(***************************************************************************)
MaxDate(docs) == CHOOSE d \in {x.date : x \in docs} : \A x \in docs : x.date <= d

\* find(...).sort("date", DESCENDING).limit(n): every list the query may
\* return; MongoDB leaves the order among documents of equal date open
RECURSIVE SortDateDescLimit(_, _)
SortDateDescLimit(docs, n) ==
    IF n = 0 \/ docs = {} THEN {<<>>}
    ELSE LET newest == {x \in docs : x.date = MaxDate(docs)}
         IN UNION {{<<x>> \o t : t \in SortDateDescLimit(docs \ {x}, n - 1)} :
                   x \in newest}

\* find_one(case_filter, sort=[("date", DESCENDING)])["date"], NoDate when
\* nothing matches
LatestDate(docs) == IF docs = {} THEN NoDate ELSE MaxDate(docs)

(***************************************************************************)
(* risk.py: metrics                                                        *)
(***************************************************************************)
clip01(x) == Max(0, Min(1000, x))

\* numerator / denominator in 1/1000 of the unit of the numerator
safe_divide(numerator, denominator) ==
    IF denominator = 0 THEN 0 ELSE (numerator * 1000) \div denominator

\* statistics.stdev(values) in 1/1000: the sample standard deviation
series_std(values) ==
    LET n == Len(values)
    IN IF n < 2 THEN 0
       ELSE ISqrt(((n * SumSquares(values) - SumSeq(values) * SumSeq(values)) * 1000000)
                  \div (n * (n - 1)))

\* the metrics of a window of documents in ascending date order
WindowMetrics(region_id, docs) ==
    LET confirmed_series == [i \in 1..Len(docs) |-> docs[i].confirmed]
        deaths_series == [i \in 1..Len(docs) |-> docs[i].deaths]
        n == Len(docs)
        today_confirmed == confirmed_series[n]
        past_confirmed == confirmed_series[1]
        today_deaths == deaths_series[n]
    IN [region_id |-> region_id,
        window_size |-> n,
        today_confirmed |-> today_confirmed,
        past_confirmed |-> past_confirmed,
        growth_rate |-> safe_divide(today_confirmed - past_confirmed,
                                    Max(past_confirmed, 1)),
        death_ratio |-> safe_divide(today_deaths, Max(today_confirmed, 1)),
        \* stdev / max(mean, 1) with mean = sum / n
        volatility_norm |-> (series_std(confirmed_series) * n)
                              \div Max(SumSeq(confirmed_series), n)]

\* the documents compute_region_metrics queries: region, date <= target_date,
\* and the disease when one is given
MetricsQuery(col, region_id, target_date, disease) ==
    {c \in col : /\ c.region_id = region_id
                 /\ c.date <= target_date
                 /\ (disease # NoDisease => c.disease = disease)}

\* metrics of zero for a region whose window is empty, instead of None
compute_region_metrics_empty_window(region_id, target_date, col, disease) ==
    LET found == SortDateDescLimit(MetricsQuery(col, region_id, target_date, disease), 7)
                   \ {<<>>}
    IN IF found = {}
       THEN {[region_id |-> region_id, window_size |-> 0, today_confirmed |-> 0,
              past_confirmed |-> 0, growth_rate |-> 0, death_ratio |-> 0,
              volatility_norm |-> 0]}
       ELSE {WindowMetrics(region_id, Reverse(docs_desc)) : docs_desc \in found}

\* every result compute_region_metrics may return; the empty set stands for None
compute_region_metrics(region_id, target_date, col, disease) ==
    {WindowMetrics(region_id, Reverse(docs_desc)) :
        docs_desc \in SortDateDescLimit(MetricsQuery(col, region_id, target_date, disease), 7)
                      \ {<<>>}}

(***************************************************************************)
(* climate.py                                                              *)
(***************************************************************************)
\* the multiplier of each month, in tenths
MONSOON_RISK_MULTIPLIERS == <<5, 5, 7, 8, 10, 15, 18, 17, 15, 12, 8, 6>>

get_climate_risk_multiplier(date) == MONSOON_RISK_MULTIPLIERS[MonthOf(date)]

get_seasonal_context(date) ==
    LET month == MonthOf(date)
    IN [month |-> month,
        climate_multiplier |-> MONSOON_RISK_MULTIPLIERS[month],
        is_monsoon |-> month \in {6, 7, 8, 9},
        season |-> IF month \in {6, 7, 8, 9} THEN "monsoon"
                   ELSE IF month \in {10, 11} THEN "post_monsoon"
                   ELSE IF month \in {3, 4, 5} THEN "pre_monsoon"
                   ELSE "winter"]

\* a driver string; pct and month carry the numbers formatted into the text
Driver(text, pct, month) == [text |-> text, pct |-> pct, month |-> month]

\* the multiplier applied with no upper limit on the product
calculate_weather_aware_risk_unclipped(base_risk, date) ==
    LET adjusted_risk == (base_risk * get_climate_risk_multiplier(date)) \div 10
    IN [adjusted_risk |-> adjusted_risk,
        explanation |-> Driver("Climate boost", 0, MonthOf(date)),
        context |-> get_seasonal_context(date)]

\* the base clipped to 1 before the multiplier is applied, not the product
calculate_weather_aware_risk_clip_base(base_risk, date) ==
    LET adjusted_risk == (Min(1000000, base_risk) * get_climate_risk_multiplier(date)) \div 10
    IN [adjusted_risk |-> adjusted_risk,
        explanation |-> Driver("Neutral climate impact", 0, MonthOf(date)),
        context |-> get_seasonal_context(date)]

\* base_risk in 1/1000000; the result is [adjusted_risk, explanation, context]
calculate_weather_aware_risk(base_risk, date) ==
    LET climate_multiplier == get_climate_risk_multiplier(date)
        adjusted_risk == Min(1000000, (base_risk * climate_multiplier) \div 10)
        diff == adjusted_risk - base_risk
        \* f"{boost_pct:.0f}"
        pct == IF base_risk > 0 THEN RoundDiv(Abs(diff) * 100, base_risk) ELSE 0
        explanation ==
            IF base_risk > 0 /\ diff * 100 > 10 * base_risk
            THEN Driver("Climate boost", pct, MonthOf(date))
            ELSE IF base_risk > 0 /\ diff * 100 < 0 - 10 * base_risk
            THEN Driver("Climate reduction", 0 - pct, MonthOf(date))
            ELSE Driver("Neutral climate impact", 0, MonthOf(date))
    IN [adjusted_risk |-> adjusted_risk, explanation |-> explanation,
        context |-> get_seasonal_context(date)]

(***************************************************************************)
(* risk.py: compute_risk_score                                             *)
(***************************************************************************)
RiskLevel(score) ==
    IF score >= 700000 THEN "HIGH"
    ELSE IF score >= 400000 THEN "MEDIUM"
    ELSE "LOW"

\* a climate driver for every change of the score, however small
ClimateDriverAddedAnyChange(base_score, adjusted_score) == adjusted_score # base_score

\* boost_pct = (adjusted - base) / base * 100 if base > 0 else 0; abs(boost_pct) > 10
ClimateDriverAdded(base_score, adjusted_score) ==
    /\ base_score > 0
    /\ Abs(adjusted_score - base_score) * 100 > 10 * base_score

compute_risk_score(metrics, target_date, use_climate_boost) ==
    LET growth_rate == metrics.growth_rate
        volatility_norm == metrics.volatility_norm
        death_ratio == metrics.death_ratio
        base_score == 650 * clip01(growth_rate)
                      + 250 * clip01(volatility_norm * 2)
                      + 100 * clip01(death_ratio * 50)
        climate == use_climate_boost /\ target_date # NoDate
        weather == calculate_weather_aware_risk(base_score, target_date)
        score == IF climate THEN weather.adjusted_risk ELSE base_score
        climate_drivers ==
            IF climate /\ ClimateDriverAdded(base_score, weather.adjusted_risk)
            THEN <<weather.explanation>> ELSE <<>>
        rule_drivers ==
            (IF growth_rate >= 300 THEN <<Driver("High 7-day growth", 0, 0)>> ELSE <<>>)
            \o (IF volatility_norm >= 150 THEN <<Driver("High volatility", 0, 0)>> ELSE <<>>)
            \o (IF death_ratio >= 20 THEN <<Driver("High death ratio", 0, 0)>> ELSE <<>>)
        drivers == climate_drivers \o rule_drivers
    IN [score |-> score,
        risk_level |-> RiskLevel(score),
        drivers |-> IF drivers = <<>> THEN <<Driver("Stable trend", 0, 0)>> ELSE drivers,
        base_risk |-> base_score]

(***************************************************************************)
(* risk.py: compute_risk_scores                                            *)
(***************************************************************************)
\* upsert_filter of compute_risk_scores: region_id, date, and the disease
\* when one is given
RiskFilterMatches(doc, region_id, date, disease) ==
    /\ doc.region_id = region_id
    /\ doc.date = date
    /\ (disease # NoDisease => doc.disease = disease)

\* {"$set": doc}: the fields of doc replace those of the stored document; a
\* doc without disease leaves the stored disease as it is
SetRisk(old, doc) ==
    [doc EXCEPT !.disease = IF doc.disease # NoDisease THEN doc.disease ELSE old.disease]

\* an update that only inserts: a stored score is never replaced
risk_update_one_insert_only(col, doc) ==
    IF \E i \in 1..Len(col) : RiskFilterMatches(col[i], doc.region_id, doc.date, doc.disease)
    THEN col
    ELSE Append(col, doc)

\* risk_col.update_one(upsert_filter, {"$set": doc}, upsert=True)
risk_update_one(col, doc) ==
    LET hits == {i \in 1..Len(col) :
                    RiskFilterMatches(col[i], doc.region_id, doc.date, doc.disease)}
    IN IF hits = {} THEN Append(col, doc)
       ELSE LET first == CHOOSE i \in hits : \A j \in hits : i <= j
            IN [col EXCEPT ![first] = SetRisk(col[first], doc)]

\* list.sort(key=risk_score, reverse=True): stable
RECURSIVE SortByScoreDesc(_)
SortByScoreDesc(s) ==
    IF s = <<>> THEN <<>>
    ELSE LET rest == SortByScoreDesc(Tail(s))
             x == Head(s)
             before == SelectSeq(rest, LAMBDA y : y.risk_score > x.risk_score)
             after == SelectSeq(rest, LAMBDA y : y.risk_score <= x.risk_score)
         IN before \o <<x>> \o after

\* regions_col.find(region_filter): every region document when no disease is
\* given, otherwise those tagged with the disease
RegionsFor(col, disease) ==
    SelectSeq(col, LAMBDA r : disease # NoDisease => r.disease = disease)

\* the loop over the regions: every outcome [col, results, skipped] it may have
RECURSIVE RiskLoop(_, _, _, _, _, _)
RiskLoop(todo, target_date, disease, use_climate_boost, col, acc) ==
    IF todo = <<>> THEN {[col |-> col, results |-> acc.results, skipped |-> acc.skipped]}
    ELSE LET region_id == Head(todo).region_id
             choices == compute_region_metrics(region_id, target_date, cases, disease)
         IN IF choices = {}
            THEN RiskLoop(Tail(todo), target_date, disease, use_climate_boost, col,
                          [acc EXCEPT !.skipped = @ + 1])
            ELSE UNION {
                   LET r == compute_risk_score(metrics, target_date, use_climate_boost)
                       doc == [region_id |-> region_id, date |-> target_date,
                               disease |-> disease, risk_score |-> r.score,
                               risk_level |-> r.risk_level, drivers |-> r.drivers]
                   IN RiskLoop(Tail(todo), target_date, disease, use_climate_boost,
                               risk_update_one(col, doc),
                               [acc EXCEPT !.results = Append(@, doc)])
                   : metrics \in choices}

compute_risk_scores(target_date, disease, use_climate_boost) ==
    LET resolved == IF target_date # NoDate THEN target_date
                    ELSE LatestDate({c \in cases :
                                       disease # NoDisease => c.disease = disease})
        args == [target_date |-> target_date, disease |-> disease,
                 use_climate_boost |-> use_climate_boost]
        repeat == last.op = "compute_risk_scores" /\ last.args = args
    IN /\ IF resolved = NoDate
          THEN /\ risk_scores' = risk_scores
               /\ last' = [op |-> "compute_risk_scores", args |-> args, repeat |-> repeat,
                           ret |-> [date |-> NoDate, results |-> <<>>, skipped |-> 0]]
          ELSE \E out \in RiskLoop(RegionsFor(regions, disease), resolved, disease,
                                   use_climate_boost, risk_scores,
                                   [results |-> <<>>, skipped |-> 0]) :
                 /\ risk_scores' = out.col
                 /\ last' = [op |-> "compute_risk_scores", args |-> args,
                             repeat |-> repeat,
                             ret |-> [date |-> resolved,
                                      results |-> SortByScoreDesc(out.results),
                                      skipped |-> out.skipped]]
       /\ UNCHANGED <<regions, cases, alerts, forecasts>>

(***************************************************************************)
(* alerts.py: generate_alerts                                              *)
(***************************************************************************)
\* Settings.risk_high_threshold, in 1/1000000
risk_high_threshold == 700000

\* f"{x:.2f}" of a value in 1/1000000: the number of hundredths printed
Format2(x) == RoundDiv(x, 10000)

\* f"Risk score {score:.2f} >= threshold {threshold:.2f}"
Reason(score, threshold) == [score |-> Format2(score), threshold |-> Format2(threshold)]

\* a filter on region_id and date alone, one alert per day whatever the reason
AlertFilterMatchesAnyReason(doc, alert) ==
    /\ doc.region_id = alert.region_id
    /\ doc.date = alert.date

\* the filter of alerts_col.update_one: region_id, date and reason
AlertFilterMatches(doc, alert) ==
    /\ doc.region_id = alert.region_id
    /\ doc.date = alert.date
    /\ doc.reason = alert.reason

\* {"$set": alert}: an alert without disease leaves the stored disease as it is
SetAlert(old, alert) ==
    [alert EXCEPT !.disease = IF alert.disease # NoDisease THEN alert.disease
                              ELSE old.disease]

\* an insert_one in place of the upsert: every run adds its alerts again
alerts_update_one_insert(col, alert) == Append(col, alert)

\* alerts_col.update_one(filter, {"$set": alert}, upsert=True)
alerts_update_one(col, alert) ==
    LET hits == {i \in 1..Len(col) : AlertFilterMatches(col[i], alert)}
    IN IF hits = {} THEN Append(col, alert)
       ELSE LET first == CHOOSE i \in hits : \A j \in hits : i <= j
            IN [col EXCEPT ![first] = SetAlert(col[first], alert)]

\* a strict comparison in place of score < threshold: continue
BelowThresholdStrict(score, threshold) == score <= threshold

\* if score < threshold: continue
BelowThreshold(score, threshold) == score < threshold

\* the loop over risk_docs: [col, alerts] after the last document
RECURSIVE AlertLoop(_, _, _, _, _)
AlertLoop(risk_docs, target_date, disease, col, acc) ==
    IF risk_docs = <<>> THEN [col |-> col, alerts |-> acc]
    ELSE LET rd == Head(risk_docs)
             score == rd.risk_score
             alert == [region_id |-> rd.region_id, date |-> target_date,
                       disease |-> disease, risk_score |-> score,
                       risk_level |-> rd.risk_level,
                       reason |-> Reason(score, risk_high_threshold)]
         IN IF BelowThreshold(score, risk_high_threshold)
            THEN AlertLoop(Tail(risk_docs), target_date, disease, col, acc)
            ELSE AlertLoop(Tail(risk_docs), target_date, disease,
                           alerts_update_one(col, alert), Append(acc, alert))

\* risk_col.find(risk_filter): the disease when one is given, and the date
\* when one is given
RiskDocsFor(col, date, disease) ==
    SelectSeq(col, LAMBDA rd : /\ (disease # NoDisease => rd.disease = disease)
                               /\ (date # NoDate => rd.date = date))

\* a date resolution that looks at the scores of every disease
LatestRiskDateAny(col, target_date, disease) ==
    IF target_date # NoDate THEN target_date
    ELSE LatestDate(SeqToSet(col))

\* the date generate_alerts works on: the one given, otherwise the date of
\* find_one(risk_filter, sort=[("date", DESCENDING)]), NoDate when none exists
AlertTargetDate(col, target_date, disease) ==
    IF target_date # NoDate THEN target_date
    ELSE LatestDate(SeqToSet(RiskDocsFor(col, NoDate, disease)))

generate_alerts(target_date, disease) ==
    LET resolved == AlertTargetDate(risk_scores, target_date, disease)
        risk_docs == SortByScoreDesc(RiskDocsFor(risk_scores, resolved, disease))
        out == AlertLoop(risk_docs, resolved, disease, alerts, <<>>)
        args == [target_date |-> target_date, disease |-> disease]
        repeat == last.op = "generate_alerts" /\ last.args = args
    IN /\ IF resolved = NoDate
          THEN /\ alerts' = alerts
               /\ last' = [op |-> "generate_alerts", args |-> args, repeat |-> repeat,
                           ret |-> [date |-> NoDate, alerts |-> <<>>]]
          ELSE /\ alerts' = out.col
               /\ last' = [op |-> "generate_alerts", args |-> args, repeat |-> repeat,
                           ret |-> [date |-> resolved,
                                    alerts |-> SortByScoreDesc(out.alerts)]]
       /\ UNCHANGED <<regions, cases, risk_scores, forecasts>>

(***************************************************************************)
(* forecasting.py: the naive strategy                                      *)
(***************************************************************************)
MODEL_VERSION == "naive_v2"

Granularities == {"yearly", "monthly", "weekly"}

\* a window of seven observations whatever the granularity
LOOKBACK_CONFIG_SEVEN == [g \in Granularities |-> 7]

LOOKBACK_CONFIG == [g \in Granularities |->
                      IF g = "yearly" THEN 3 ELSE IF g = "monthly" THEN 6 ELSE 12]

\* a granularity filter that takes every document for "yearly"
GranularityMatchesAnyYearly(doc, granularity) ==
    granularity = "yearly" \/ doc.granularity = granularity

\* case_filter["granularity"]: {"$exists": False} for "yearly", otherwise the
\* granularity itself
GranularityMatches(doc, granularity) ==
    IF granularity = "yearly" THEN doc.granularity = NoGranularity
    ELSE doc.granularity = granularity

\* None when no date resolves
resolve_target_date(col, target_date, disease, granularity) ==
    IF target_date # NoDate THEN target_date
    ELSE LatestDate({c \in col : /\ (disease # NoDisease => c.disease = disease)
                                 /\ GranularityMatches(c, granularity)})

\* case_filter of generate_forecast and generate_arima_forecast
HistoryQuery(col, region_id, target_date, disease, granularity) ==
    {c \in col : /\ c.region_id = region_id
                 /\ c.date <= target_date
                 /\ (disease # NoDisease => c.disease = disease)
                 /\ GranularityMatches(c, granularity)}

\* a filter on region_id and date alone, one record per day whatever the model
ForecastFilterMatchesAnyModel(doc, f) ==
    /\ doc.region_id = f.region_id
    /\ doc.date = f.date

\* the filter of forecasts_col.update_one: region_id, date and model_version
ForecastFilterMatches(doc, f) ==
    /\ doc.region_id = f.region_id
    /\ doc.date = f.date
    /\ doc.model_version = f.model_version

\* {"$set": doc}: a doc without disease leaves the stored disease as it is
SetForecast(old, doc) ==
    [doc EXCEPT !.disease = IF doc.disease # NoDisease THEN doc.disease ELSE old.disease]

\* forecasts_col.update_one(filter, {"$set": doc}, upsert=True)
forecasts_update_one(col, doc) ==
    LET hits == {i \in 1..Len(col) : ForecastFilterMatches(col[i], doc)}
    IN IF hits = {} THEN Append(col, doc)
       ELSE LET first == CHOOSE i \in hits : \A j \in hits : i <= j
            IN [col EXCEPT ![first] = SetForecast(col[first], doc)]

RECURSIVE StoreForecasts(_, _)
StoreForecasts(col, docs) ==
    IF docs = <<>> THEN col
    ELSE StoreForecasts(forecasts_update_one(col, Head(docs)), Tail(docs))

\* the records generate_forecast builds from the documents last_docs
NaiveForecastDocs(region_id, target_date, horizon, disease, granularity, last_docs) ==
    LET confirmed_series == [i \in 1..Len(last_docs) |-> last_docs[i].confirmed]
        \* in 1/1000 of a case
        pred_mean == (SumSeq(confirmed_series) * 1000) \div Len(confirmed_series)
    IN [day \in 1..horizon |->
          [region_id |-> region_id, date |-> target_date + day, disease |-> disease,
           model_version |-> MODEL_VERSION, pred_mean |-> pred_mean,
           pred_lower |-> (pred_mean * 90) \div 100,
           pred_upper |-> (pred_mean * 110) \div 100,
           source_granularity |-> granularity]]

\* every outcome [docs, read] of generate_forecast for a region: the records it
\* persists and returns, and the documents its query returned
generate_forecast(region_id, target_date, horizon, disease, granularity) ==
    {[docs |-> IF last_docs = <<>> THEN <<>>
               ELSE NaiveForecastDocs(region_id, target_date, horizon, disease,
                                      granularity, last_docs),
      read |-> SeqToSet(last_docs)] :
        last_docs \in SortDateDescLimit(
                        HistoryQuery(cases, region_id, target_date, disease, granularity),
                        LOOKBACK_CONFIG[granularity])}

\* the order of region identifiers as strings
RegionRank(region_id) == IF region_id = "R1" THEN 1 ELSE 2

\* results.sort(key=(region_id, date)): stable
RECURSIVE SortByRegionDate(_)
SortByRegionDate(s) ==
    IF s = <<>> THEN <<>>
    ELSE LET rest == SortByRegionDate(Tail(s))
             x == Head(s)
             Less(y) == \/ RegionRank(y.region_id) < RegionRank(x.region_id)
                        \/ (y.region_id = x.region_id /\ y.date < x.date)
             before == SelectSeq(rest, Less)
             after == SelectSeq(rest, LAMBDA y : ~Less(y))
         IN before \o <<x>> \o after

\* the loop over the regions: every outcome [col, results, skipped, read]
RECURSIVE ForecastLoop(_, _, _, _, _, _, _)
ForecastLoop(todo, resolved_date, horizon, disease, granularity, col, acc) ==
    IF todo = <<>> THEN {[acc EXCEPT !.col = col]}
    ELSE UNION {
           ForecastLoop(Tail(todo), resolved_date, horizon, disease, granularity,
                        StoreForecasts(col, out.docs),
                        [acc EXCEPT !.results = @ \o out.docs,
                                    !.skipped = IF out.docs = <<>> THEN @ + 1 ELSE @,
                                    !.read = @ \cup out.read])
           : out \in generate_forecast(Head(todo).region_id, resolved_date, horizon,
                                       disease, granularity)}

generate_forecasts(target_date, horizon, disease, granularity) ==
    LET resolved_date == resolve_target_date(cases, target_date, disease, granularity)
        args == [target_date |-> target_date, horizon |-> horizon, disease |-> disease,
                 granularity |-> granularity]
        repeat == last.op = "generate_forecasts" /\ last.args = args
    IN /\ IF resolved_date = NoDate
          THEN /\ forecasts' = forecasts
               /\ last' = [op |-> "generate_forecasts", args |-> args, repeat |-> repeat,
                           ret |-> [date |-> NoDate, forecasts |-> <<>>, skipped |-> 0,
                                    read |-> {}]]
          ELSE \E out \in ForecastLoop(RegionsFor(regions, disease), resolved_date,
                                       horizon, disease, granularity, forecasts,
                                       [col |-> <<>>, results |-> <<>>, skipped |-> 0,
                                        read |-> {}]) :
                 /\ forecasts' = out.col
                 /\ last' = [op |-> "generate_forecasts", args |-> args,
                             repeat |-> repeat,
                             ret |-> [date |-> resolved_date,
                                      forecasts |-> SortByRegionDate(out.results),
                                      skipped |-> out.skipped, read |-> out.read]]
       /\ UNCHANGED <<regions, cases, risk_scores, alerts>>

(***************************************************************************)
(* arima_forecasting.py: the statistical strategy                          *)
(***************************************************************************)
MODEL_VERSION_ARIMA == "arima_v1"

MODEL_VERSION_SARIMA == "sarima_v1"

ARIMA_LOOKBACK_CONFIG == [g \in Granularities |->
                            IF g = "yearly" THEN 5 ELSE IF g = "monthly" THEN 24 ELSE 52]

SEASONAL_PERIODS == [g \in Granularities |->
                       IF g = "yearly" THEN 1 ELSE IF g = "monthly" THEN 12 ELSE 52]

\* the least number of historical documents the statistical strategy accepts
MIN_ARIMA_POINTS == 10

\* what pmdarima may do with a series: the fit fails (None), the fitted model
\* fails to predict, or it predicts a mean and an interval (in 1/1000 of a
\* case, before clipping and rounding), the same for every day
FitOutcomes(seasonal) ==
    {[fitted |-> FALSE, predicts |-> FALSE, seasonal |-> seasonal,
      pred |-> 0, lower |-> 0, upper |-> 0],
     [fitted |-> TRUE, predicts |-> FALSE, seasonal |-> seasonal,
      pred |-> 0, lower |-> 0, upper |-> 0],
     [fitted |-> TRUE, predicts |-> TRUE, seasonal |-> seasonal,
      pred |-> 2346, lower |-> 0 - 1234, upper |-> 5004]}

\* round(max(0, x), 2) of a value in 1/1000
ClipRound2(x) == RoundDiv(Max(0, x), 10) * 10

\* a history taken as sufficient whatever its length
InsufficientDataNever(historical_docs) == FALSE

\* if len(historical_docs) < 10: return []
InsufficientData(historical_docs) == Len(historical_docs) < MIN_ARIMA_POINTS

\* every outcome of generate_arima_forecast for a region: the records it
\* persists and returns, the documents its query returned, and what became of
\* the fit (whether a model was fitted, whether it was a seasonal one, and
\* whether it predicted)
generate_arima_forecast(region_id, target_date, horizon, disease, granularity, use_seasonal) ==
    UNION {
      IF InsufficientData(historical_docs)
      THEN {[docs |-> <<>>, read |-> SeqToSet(historical_docs), seasonal |-> FALSE,
             fitted |-> FALSE, predicts |-> FALSE]}
      ELSE {[docs |-> IF ~(model.fitted /\ model.predicts) THEN <<>>
                      ELSE [day \in 1..horizon |->
                              [region_id |-> region_id, date |-> target_date + day,
                               disease |-> disease,
                               model_version |-> IF use_seasonal THEN MODEL_VERSION_SARIMA
                                                 ELSE MODEL_VERSION_ARIMA,
                               pred_mean |-> ClipRound2(model.pred),
                               pred_lower |-> ClipRound2(model.lower),
                               pred_upper |-> ClipRound2(model.upper),
                               source_granularity |-> granularity]],
             read |-> SeqToSet(historical_docs),
             seasonal |-> model.seasonal,
             fitted |-> model.fitted, predicts |-> model.predicts] :
              model \in FitOutcomes(use_seasonal /\ Len(historical_docs)
                                                     >= SEASONAL_PERIODS[granularity] * 2)}
      : historical_docs \in SortDateDescLimit(
                              HistoryQuery(cases, region_id, target_date, disease,
                                           granularity),
                              ARIMA_LOOKBACK_CONFIG[granularity])}

\* the loop over the regions: every outcome [col, results, successful, failed, read]
RECURSIVE ArimaLoop(_, _, _, _, _, _, _, _)
ArimaLoop(todo, resolved_date, horizon, disease, granularity, use_seasonal, col, acc) ==
    IF todo = <<>> THEN {[acc EXCEPT !.col = col]}
    ELSE UNION {
           ArimaLoop(Tail(todo), resolved_date, horizon, disease, granularity,
                     use_seasonal, StoreForecasts(col, out.docs),
                     [acc EXCEPT !.results = @ \o out.docs,
                                 !.successful = IF out.docs # <<>> THEN @ + 1 ELSE @,
                                 !.failed = IF out.docs = <<>> THEN @ + 1 ELSE @,
                                 !.read = @ \cup out.read,
                                 !.fits = Append(@, [region_id |-> Head(todo).region_id,
                                                     read |-> Cardinality(out.read),
                                                     fitted |-> out.fitted,
                                                     seasonal |-> out.seasonal,
                                                     predicts |-> out.predicts])])
           : out \in generate_arima_forecast(Head(todo).region_id, resolved_date,
                                             horizon, disease, granularity, use_seasonal)}

generate_arima_forecasts(target_date, horizon, disease, granularity, use_seasonal) ==
    LET resolved_date == resolve_target_date(cases, target_date, disease, granularity)
        args == [target_date |-> target_date, horizon |-> horizon, disease |-> disease,
                 granularity |-> granularity, use_seasonal |-> use_seasonal]
        repeat == last.op = "generate_arima_forecasts" /\ last.args = args
    IN /\ IF resolved_date = NoDate
          THEN /\ forecasts' = forecasts
               /\ last' = [op |-> "generate_arima_forecasts", args |-> args,
                           repeat |-> repeat,
                           ret |-> [date |-> NoDate, forecasts |-> <<>>, successful |-> 0,
                                    failed |-> 0, read |-> {}, fits |-> <<>>]]
          ELSE \E out \in ArimaLoop(RegionsFor(regions, disease), resolved_date, horizon,
                                    disease, granularity, use_seasonal, forecasts,
                                    [col |-> <<>>, results |-> <<>>, successful |-> 0,
                                     failed |-> 0, read |-> {}, fits |-> <<>>]) :
                 /\ forecasts' = out.col
                 /\ last' = [op |-> "generate_arima_forecasts", args |-> args,
                             repeat |-> repeat,
                             ret |-> [date |-> resolved_date,
                                      forecasts |-> SortByRegionDate(out.results),
                                      successful |-> out.successful,
                                      failed |-> out.failed, read |-> out.read,
                                      fits |-> out.fits]]
       /\ UNCHANGED <<regions, cases, risk_scores, alerts>>

(***************************************************************************)
(* Bounds and inputs                                                       *)
(***************************************************************************)
MaxCases == 2

MaxRegionDocs == 1

MaxRiskDocs == 2

MaxAlerts == 2

\* 2024-03-30 and 2024-03-31: March carries the multiplier 0.7
Dates == {DayOfYear(3, 30), DayOfYear(3, 31)}

DiseaseArgs == Diseases \cup {NoDisease}

DateArgs == Dates \cup {NoDate}

RegionInputs == [region_id : {"R1"}, disease : DiseaseArgs]

\* one observation per (date, disease): a first day with 1 case and no
\* death, a later day with 3 cases and 1 death
CaseInputs ==
    {[region_id |-> "R1", date |-> d, disease |-> dis, granularity |-> NoGranularity,
      confirmed |-> IF d = DayOfYear(3, 30) THEN 1 ELSE 3,
      deaths |-> IF d = DayOfYear(3, 30) THEN 0 ELSE 1] : d \in Dates, dis \in Diseases}

NoCall == [op |-> "init", args |-> <<>>, ret |-> <<>>, repeat |-> FALSE]

Init ==
    /\ regions = <<>>
    /\ cases = {}
    /\ risk_scores = <<>>
    /\ alerts = <<>>
    /\ forecasts = <<>>
    /\ last = NoCall

IngestRegion ==
    \E region \in RegionInputs :
       /\ Len(regions) < MaxRegionDocs
       /\ upsert_regions(region)

IngestCase ==
    \E case \in CaseInputs :
       /\ Cardinality(cases) < MaxCases
       /\ upsert_cases(case)

\* risk scoring as the pipeline runs it, with the climate adjustment left on
ComputeRisk ==
    \E target_date \in DateArgs, disease \in DiseaseArgs, use_climate_boost \in {TRUE} :
       /\ compute_risk_scores(target_date, disease, use_climate_boost)
       /\ Len(risk_scores') <= MaxRiskDocs

Next == IngestRegion \/ IngestCase \/ ComputeRisk

Spec == Init /\ [][Next]_vars

(***************************************************************************)
(* Claims on ingestion and risk scoring                                    *)
(***************************************************************************)
SameRiskKey(a, b) ==
    a.region_id = b.region_id /\ a.date = b.date /\ a.disease = b.disease

SameRiskValues(a, b) ==
    a.risk_score = b.risk_score /\ a.risk_level = b.risk_level /\ a.drivers = b.drivers

\* C4: after compute_risk_scores(date, X) for a disease X, every region that
\* was registered without a disease tag and has observations of both diseases
\* on or before the date has a risk score stored for (region, date, X),
\* tagged X.
C4_UntaggedRegionScored ==
    (last.op = "compute_risk_scores" /\ last.args.disease \in Diseases
        /\ last.args.target_date # NoDate) =>
      \A r \in RegionIds :
        (/\ \E i \in 1..Len(regions) :
               regions[i].region_id = r /\ regions[i].disease = NoDisease
         /\ \A dis \in Diseases :
               \E c \in cases : /\ c.region_id = r
                                /\ c.disease = dis
                                /\ c.date <= last.args.target_date)
        => \E i \in 1..Len(risk_scores) :
              /\ risk_scores[i].region_id = r
              /\ risk_scores[i].date = last.args.target_date
              /\ risk_scores[i].disease = last.args.disease

\* C5: an upsert_cases of an observation of disease A leaves every stored
\* observation of another disease B in place, and every read filtered by B
\* returns after the write what it returned before it.
C5_CasesDiseaseIsolation ==
    [][(last'.op = "upsert_cases" /\ last'.args.disease # NoDisease) =>
         \A B \in Diseases \ {last'.args.disease} :
            /\ {c \in cases' : c.disease = B} = {c \in cases : c.disease = B}
            /\ \A r \in RegionIds, d \in Dates :
                  MetricsQuery(cases', r, d, B) = MetricsQuery(cases, r, d, B)]_vars

C5_Witness ==
    /\ last.op = "upsert_cases"
    /\ last.ret.inserted = 1
    /\ \E a \in cases, b \in cases :
          /\ a.disease = last.args.disease
          /\ a.region_id = last.args.region_id /\ a.date = last.args.date
          /\ b.region_id = a.region_id /\ b.date = a.date
          /\ b.disease \in Diseases \ {a.disease}

\* C6: the risk-score store never holds two scores with the same (region,
\* date, disease); and after compute_risk_scores every score it computed for
\* a disease is the score, level and drivers stored under (region, date,
\* disease), while a score computed without a disease is the one stored for
\* its (region, date).
C6_OneScorePerKey ==
    /\ \A i, j \in 1..Len(risk_scores) :
          SameRiskKey(risk_scores[i], risk_scores[j]) => i = j
    /\ last.op = "compute_risk_scores" =>
         \A k \in 1..Len(last.ret.results) :
            LET doc == last.ret.results[k]
            IN \E i \in 1..Len(risk_scores) :
                  /\ risk_scores[i].region_id = doc.region_id
                  /\ risk_scores[i].date = doc.date
                  /\ (doc.disease # NoDisease => risk_scores[i].disease = doc.disease)
                  /\ SameRiskValues(risk_scores[i], doc)

\* a repeated run found the score of the first run and left one score, the
\* alert-worthy one
C6_Witness ==
    /\ last.op = "compute_risk_scores"
    /\ last.repeat
    /\ Len(risk_scores) = 1
    /\ Len(last.ret.results) = 1
    /\ risk_scores[1].risk_score >= risk_high_threshold

(***************************************************************************)
(* Alert generation over a loaded store                                    *)
(***************************************************************************)
\* the region directory and the observations after a load of both diseases:
\* all four observations of CaseInputs, or all but the first day of COVID
InitAlerts ==
    /\ regions = <<[region_id |-> "R1", disease |-> "DENGUE"],
                   [region_id |-> "R1", disease |-> "COVID"]>>
    /\ cases \in {CaseInputs,
                  {c \in CaseInputs : c.disease = "DENGUE" \/ c.date = DayOfYear(3, 31)}}
    /\ risk_scores = <<>>
    /\ alerts = <<>>
    /\ forecasts = <<>>
    /\ last = NoCall

ComputeRiskOfDisease ==
    \E target_date \in Dates, disease \in Diseases, use_climate_boost \in BOOLEAN :
       /\ compute_risk_scores(target_date, disease, use_climate_boost)
       /\ Len(risk_scores') <= MaxRiskDocs

GenerateAlerts ==
    \E target_date \in DateArgs, disease \in DiseaseArgs :
       /\ generate_alerts(target_date, disease)
       /\ Len(alerts') <= MaxAlerts

NextAlerts == ComputeRiskOfDisease \/ GenerateAlerts

SpecAlerts == InitAlerts /\ [][NextAlerts]_vars

(***************************************************************************)
(* Claims on alert generation                                              *)
(***************************************************************************)
SameAlertKey(a, b) ==
    /\ a.region_id = b.region_id /\ a.date = b.date
    /\ a.disease = b.disease /\ a.reason = b.reason

\* the risk scores an alert is due for: those of the date, of the disease
\* when one is given, at or above the threshold
AlertWorthy(date, disease) ==
    {i \in 1..Len(risk_scores) :
        /\ risk_scores[i].date = date
        /\ (disease # NoDisease => risk_scores[i].disease = disease)
        /\ risk_scores[i].risk_score >= risk_high_threshold}

\* C1: generate_alerts for a disease B leaves every stored alert that is
\* tagged with another disease A in the store, unmodified.
C1_AlertsDiseaseIsolation ==
    [][(last'.op = "generate_alerts" /\ last'.args.disease # NoDisease) =>
         \A i \in 1..Len(alerts) :
            alerts[i].disease \in Diseases \ {last'.args.disease} =>
               \E j \in 1..Len(alerts') : alerts'[j] = alerts[i]]_vars

\* C3: a generate_alerts that repeats the call before it, (date, disease)
\* the same and no other operation in between, leaves the alert store as the
\* first call left it, and no (region, date, disease, reason) is stored twice.
C3_GenerateAlertsIdempotent ==
    [][(last'.op = "generate_alerts" /\ last'.repeat) =>
         /\ alerts' = alerts
         /\ \A i, j \in 1..Len(alerts') :
               SameAlertKey(alerts'[i], alerts'[j]) => i = j]_vars

\* the repeated call returned an alert and the store holds it
C3_Witness ==
    /\ last.op = "generate_alerts"
    /\ last.repeat
    /\ Len(last.ret.alerts) >= 1
    /\ Len(alerts) >= 1

\* C9: generate_alerts returns one alert for each risk score of the resolved
\* date (of the disease when one is given) that is at or above the threshold
\* and none for any other score, every alert it returns is in the store with
\* its score, level and reason, and no stored alert has a score below the
\* threshold.
C9_AlertsExactlyAtOrAboveThreshold ==
    /\ \A i \in 1..Len(alerts) : alerts[i].risk_score >= risk_high_threshold
    /\ (last.op = "generate_alerts" /\ last.ret.date # NoDate) =>
         LET due == AlertWorthy(last.ret.date, last.args.disease)
             returned == last.ret.alerts
         IN /\ Len(returned) = Cardinality(due)
            /\ \A i \in due :
                  \E k \in 1..Len(returned) :
                     /\ returned[k].region_id = risk_scores[i].region_id
                     /\ returned[k].risk_score = risk_scores[i].risk_score
                     /\ returned[k].risk_level = risk_scores[i].risk_level
            /\ \A k \in 1..Len(returned) :
                  /\ returned[k].date = last.ret.date
                  /\ returned[k].disease = last.args.disease
                  /\ \E i \in due :
                        /\ returned[k].region_id = risk_scores[i].region_id
                        /\ returned[k].risk_score = risk_scores[i].risk_score
                  /\ \E j \in 1..Len(alerts) :
                        /\ alerts[j].region_id = returned[k].region_id
                        /\ alerts[j].date = returned[k].date
                        /\ alerts[j].reason = returned[k].reason
                        /\ alerts[j].risk_score = returned[k].risk_score
                        /\ alerts[j].risk_level = returned[k].risk_level
                        /\ (last.args.disease # NoDisease =>
                               alerts[j].disease = last.args.disease)

\* a score equal to the threshold was alerted while a score of the same date
\* below the threshold was not
C9_Witness ==
    /\ last.op = "generate_alerts"
    /\ Len(last.ret.alerts) = 1
    /\ last.ret.alerts[1].risk_score = risk_high_threshold
    /\ \E j \in 1..Len(alerts) : alerts[j].risk_score = risk_high_threshold
    /\ \E i \in 1..Len(risk_scores) :
          /\ risk_scores[i].date = last.ret.date
          /\ (last.args.disease # NoDisease =>
                 risk_scores[i].disease = last.args.disease)
          /\ risk_scores[i].risk_score < risk_high_threshold

\* C10: a generate_alerts without a date works on the greatest date of the
\* stored risk scores, those of the disease when one is given; when there is
\* no such score it returns the empty date and no alerts and leaves the alert
\* store as it was.
C10_OmittedDateResolution ==
    [][(last'.op = "generate_alerts" /\ last'.args.target_date = NoDate) =>
         LET qualifying == {i \in 1..Len(risk_scores) :
                              last'.args.disease # NoDisease =>
                                 risk_scores[i].disease = last'.args.disease}
         IN IF qualifying = {}
            THEN /\ last'.ret.date = NoDate
                 /\ last'.ret.alerts = <<>>
                 /\ alerts' = alerts
            ELSE /\ \E i \in qualifying : risk_scores[i].date = last'.ret.date
                 /\ \A i \in qualifying : risk_scores[i].date <= last'.ret.date]_vars

\* the date resolved for a disease is earlier than the latest score of
\* another disease
C10_Witness ==
    /\ last.op = "generate_alerts"
    /\ last.args.target_date = NoDate
    /\ last.args.disease # NoDisease
    /\ last.ret.date # NoDate
    /\ \E i \in 1..Len(risk_scores) :
          /\ risk_scores[i].disease # last.args.disease
          /\ risk_scores[i].date > last.ret.date

(***************************************************************************)
(* Forecasting over a seeded store                                         *)
(***************************************************************************)
MaxHorizon == 2

MaxForecastDocs == 2

\* the observations the seeding scripts write with a granularity tag: ten
\* monthly DENGUE observations up to 2024-03-30, a weekly DENGUE observation
\* on 2024-04-01 and a weekly COVID observation on 2024-03-30
SeededCases ==
    {[region_id |-> "R1", date |-> d, disease |-> "DENGUE", granularity |-> "monthly",
      confirmed |-> 10 + (d % 3), deaths |-> 0] :
        d \in (DayOfYear(3, 30) - 9)..DayOfYear(3, 30)}
    \cup {[region_id |-> "R1", date |-> DayOfYear(4, 1), disease |-> "DENGUE",
           granularity |-> "weekly", confirmed |-> 7, deaths |-> 0],
          [region_id |-> "R1", date |-> DayOfYear(3, 30), disease |-> "COVID",
           granularity |-> "weekly", confirmed |-> 5, deaths |-> 0]}

InitForecast ==
    /\ regions = <<[region_id |-> "R1", disease |-> "DENGUE"],
                   [region_id |-> "R1", disease |-> "COVID"]>>
    /\ cases = SeededCases
    /\ risk_scores = <<>>
    /\ alerts = <<>>
    /\ forecasts = <<>>
    /\ last = NoCall

\* upsert_cases of the observations of 2024-03-31
IngestUntaggedCase ==
    \E case \in {c \in CaseInputs : c.date = DayOfYear(3, 31)} :
       /\ Cardinality({c \in cases : c.granularity = NoGranularity}) < MaxCases
       /\ upsert_cases(case)

GenerateForecasts ==
    \E target_date \in {NoDate, DayOfYear(3, 31)}, horizon \in {MaxHorizon},
       disease \in Diseases, granularity \in Granularities :
       /\ generate_forecasts(target_date, horizon, disease, granularity)
       /\ Len(forecasts') <= MaxForecastDocs

GenerateArimaForecasts ==
    \E target_date \in {NoDate, DayOfYear(3, 31)}, horizon \in {MaxHorizon},
       disease \in Diseases, granularity \in Granularities, use_seasonal \in BOOLEAN :
       /\ generate_arima_forecasts(target_date, horizon, disease, granularity,
                                   use_seasonal)
       /\ Len(forecasts') <= MaxForecastDocs

NextForecast == IngestUntaggedCase \/ GenerateForecasts \/ GenerateArimaForecasts

SpecForecast == InitForecast /\ [][NextForecast]_vars

(***************************************************************************)
(* Claims on forecasting                                                   *)
(***************************************************************************)
ForecastOps == {"generate_forecasts", "generate_arima_forecasts"}

\* the sum of the confirmed counts of a set of observations
RECURSIVE SumConfirmed(_)
SumConfirmed(S) ==
    IF S = {} THEN 0
    ELSE LET c == CHOOSE x \in S : TRUE
         IN c.confirmed + SumConfirmed(S \ {c})

\* the observations a forecast of a granularity may use: for "yearly" those
\* that carry none of the granularity tags, otherwise those that carry the
\* requested one
Selected(col, disease, granularity) ==
    {c \in col : /\ (disease # NoDisease => c.disease = disease)
                 /\ (granularity = "yearly" => c.granularity \notin Granularities)
                 /\ (granularity # "yearly" => c.granularity = granularity)}

\* C2: generating the forecasts of a disease B, with either strategy, leaves
\* every stored forecast that is tagged with another disease A in the store,
\* unmodified.
C2_ForecastsDiseaseIsolation ==
    [][(last'.op \in ForecastOps /\ last'.args.disease # NoDisease) =>
         \A i \in 1..Len(forecasts) :
            forecasts[i].disease \in Diseases \ {last'.args.disease} =>
               \E j \in 1..Len(forecasts') : forecasts'[j] = forecasts[i]]_vars

\* C7: after generate_forecasts(target_date, disease D, horizon h) with the
\* default granularity "monthly", every registered region that has an
\* observation of D without a granularity tag on or before the date has at
\* least h forecasts of D in the store.
C7_UntaggedCasesForecast ==
    (/\ last.op = "generate_forecasts"
     /\ last.args.granularity = "monthly"
     /\ last.args.disease \in Diseases
     /\ last.args.target_date # NoDate) =>
      \A r \in RegionIds :
        (/\ \E i \in 1..Len(regions) : regions[i].region_id = r
         /\ \E c \in cases : /\ c.region_id = r
                             /\ c.disease = last.args.disease
                             /\ c.granularity = NoGranularity
                             /\ c.date <= last.args.target_date)
        => Cardinality({i \in 1..Len(forecasts) :
                           /\ forecasts[i].region_id = r
                           /\ forecasts[i].disease = last.args.disease})
             >= last.args.horizon

\* C8: both forecasting strategies read only observations selected by the
\* granularity: untagged ones for "yearly", those of the same tag for
\* "monthly" and "weekly"; an omitted target date resolves to the greatest
\* date of the selected observations, to none when there is none; and the
\* mean of a naive forecast is the mean of the observations read.
C8_GranularitySelection ==
    last.op \in ForecastOps =>
      LET selected == Selected(cases, last.args.disease, last.args.granularity)
      IN /\ last.ret.read \subseteq selected
         /\ last.args.target_date = NoDate =>
               IF selected = {} THEN last.ret.date = NoDate
               ELSE /\ \E c \in selected : c.date = last.ret.date
                    /\ \A c \in selected : c.date <= last.ret.date
         /\ last.ret.forecasts # <<>> => last.ret.read # {}
         /\ last.op = "generate_forecasts" =>
               \A k \in 1..Len(last.ret.forecasts) :
                  /\ last.ret.forecasts[k].source_granularity = last.args.granularity
                  /\ last.ret.forecasts[k].pred_mean =
                        (SumConfirmed(last.ret.read) * 1000)
                           \div Cardinality(last.ret.read)

\* a yearly forecast with an omitted date was made from untagged observations
\* while a monthly observation of the same region and disease lies in the
\* date range and a weekly one lies after it
C8_Witness ==
    /\ last.op = "generate_forecasts"
    /\ last.args.granularity = "yearly"
    /\ last.args.target_date = NoDate
    /\ last.ret.forecasts # <<>>
    /\ \E c \in cases : /\ c.granularity = "monthly"
                        /\ c.disease = last.args.disease
                        /\ c.region_id = last.ret.forecasts[1].region_id
                        /\ c.date <= last.ret.date
    /\ \E c \in cases : /\ c.granularity = "weekly"
                        /\ c.disease = last.args.disease
                        /\ c.date > last.ret.date

(***************************************************************************)
(* Batch operations over a store whose writes may raise                    *)
(***************************************************************************)
\* update_one raises on the write numbered fail_at of a batch (0: on none);
\* done is the number of writes the batch has made so far
WriteRaises(fail_at, done) == fail_at = done + 1

\* compute_risk_scores, the loop over the regions: the exception of
\* update_one leaves the loop and the function (except Exception: raise)
RECURSIVE RiskLoopStore(_, _, _, _, _, _, _)
RiskLoopStore(todo, target_date, disease, use_climate_boost, col, acc, fail_at) ==
    IF todo = <<>> THEN {[acc EXCEPT !.col = col]}
    ELSE LET region_id == Head(todo).region_id
             choices == compute_region_metrics(region_id, target_date, cases, disease)
         IN IF choices = {}
            THEN RiskLoopStore(Tail(todo), target_date, disease, use_climate_boost, col,
                               [acc EXCEPT !.skipped = @ + 1], fail_at)
            ELSE UNION {
                   LET r == compute_risk_score(metrics, target_date, use_climate_boost)
                       doc == [region_id |-> region_id, date |-> target_date,
                               disease |-> disease, risk_score |-> r.score,
                               risk_level |-> r.risk_level, drivers |-> r.drivers]
                   IN IF WriteRaises(fail_at, Len(acc.written))
                      THEN {[acc EXCEPT !.col = col, !.raised = TRUE, !.write_failed = TRUE]}
                      ELSE RiskLoopStore(Tail(todo), target_date, disease,
                                         use_climate_boost, risk_update_one(col, doc),
                                         [acc EXCEPT !.results = Append(@, doc),
                                                     !.written = Append(@, doc)],
                                         fail_at)
                   : metrics \in choices}

\* generate_alerts, the loop over risk_docs: the exception of update_one
\* leaves the loop and the function (except Exception: raise)
RECURSIVE AlertLoopStore(_, _, _, _, _, _)
AlertLoopStore(risk_docs, target_date, disease, col, acc, fail_at) ==
    IF risk_docs = <<>> THEN [acc EXCEPT !.col = col]
    ELSE LET rd == Head(risk_docs)
             score == rd.risk_score
             alert == [region_id |-> rd.region_id, date |-> target_date,
                       disease |-> disease, risk_score |-> score,
                       risk_level |-> rd.risk_level,
                       reason |-> Reason(score, risk_high_threshold)]
         IN IF BelowThreshold(score, risk_high_threshold)
            THEN AlertLoopStore(Tail(risk_docs), target_date, disease, col, acc, fail_at)
            ELSE IF WriteRaises(fail_at, Len(acc.written))
            THEN [acc EXCEPT !.col = col, !.raised = TRUE, !.write_failed = TRUE]
            ELSE AlertLoopStore(Tail(risk_docs), target_date, disease,
                                alerts_update_one(col, alert),
                                [acc EXCEPT !.results = Append(@, alert),
                                            !.written = Append(@, alert)],
                                fail_at)

\* the forecasts of one region under either strategy
RegionForecasts(strategy, region_id, target_date, horizon, disease, granularity, use_seasonal) ==
    IF strategy = "generate_forecasts"
    THEN {o.docs : o \in generate_forecast(region_id, target_date, horizon, disease,
                                           granularity)}
    ELSE {o.docs : o \in generate_arima_forecast(region_id, target_date, horizon,
                                                 disease, granularity, use_seasonal)}

\* generate_forecasts and generate_arima_forecasts, the loop over the
\* regions: the exception of update_one is caught in generate_forecast and
\* generate_arima_forecast (except Exception: return []), after the records
\* of the days before it were written
RECURSIVE ForecastLoopStore(_, _, _, _, _, _, _, _, _, _)
ForecastLoopStore(strategy, todo, resolved_date, horizon, disease, granularity, use_seasonal, col, acc, fail_at) ==
    IF todo = <<>> THEN {[acc EXCEPT !.col = col]}
    ELSE UNION {
           LET done == Len(acc.written)
               fails == fail_at > done /\ fail_at <= done + Len(docs)
               \* the writes after the one that raised succeed
               later == IF fails THEN 0 ELSE fail_at
               stored == IF fails THEN SubSeq(docs, 1, fail_at - done - 1) ELSE docs
               returned == IF fails THEN <<>> ELSE docs
           IN ForecastLoopStore(strategy, Tail(todo), resolved_date, horizon, disease,
                                granularity, use_seasonal, StoreForecasts(col, stored),
                                [acc EXCEPT
                                   !.results = @ \o returned,
                                   !.skipped = IF returned = <<>> THEN @ + 1 ELSE @,
                                   !.written = @ \o stored,
                                   !.write_failed = @ \/ fails],
                                later)
           : docs \in RegionForecasts(strategy, Head(todo).region_id, resolved_date,
                                      horizon, disease, granularity, use_seasonal)}

\* what a batch has done before its first region
NoOutcome ==
    [col |-> <<>>, results |-> <<>>, skipped |-> 0, written |-> <<>>,
     raised |-> FALSE, write_failed |-> FALSE]

\* the record of a batch call: whether a write raised, whether the call
\* raised, and what it returned and wrote
BatchCall(op, args, out) ==
    [op |-> op, args |-> args, repeat |-> FALSE,
     ret |-> [raised |-> out.raised, write_failed |-> out.write_failed,
              results |-> out.results, skipped |-> out.skipped,
              written |-> out.written]]

compute_risk_scores_store(target_date, disease, use_climate_boost, fail_at) ==
    /\ \E out \in RiskLoopStore(RegionsFor(regions, disease), target_date, disease,
                                use_climate_boost, risk_scores, NoOutcome, fail_at) :
          /\ risk_scores' = out.col
          /\ last' = BatchCall("compute_risk_scores",
                               [target_date |-> target_date, disease |-> disease], out)
    /\ UNCHANGED <<regions, cases, alerts, forecasts>>

generate_alerts_store(target_date, disease, fail_at) ==
    LET risk_docs == SortByScoreDesc(RiskDocsFor(risk_scores, target_date, disease))
        out == AlertLoopStore(risk_docs, target_date, disease, alerts, NoOutcome, fail_at)
    IN /\ alerts' = out.col
       /\ last' = BatchCall("generate_alerts",
                            [target_date |-> target_date, disease |-> disease], out)
       /\ UNCHANGED <<regions, cases, risk_scores, forecasts>>

generate_forecasts_store(strategy, target_date, horizon, disease, granularity, use_seasonal, fail_at) ==
    /\ \E out \in ForecastLoopStore(strategy, RegionsFor(regions, disease), target_date,
                                    horizon, disease, granularity, use_seasonal,
                                    forecasts, NoOutcome, fail_at) :
          /\ forecasts' = out.col
          /\ last' = BatchCall(strategy,
                               [target_date |-> target_date, disease |-> disease,
                                granularity |-> granularity], out)
    /\ UNCHANGED <<regions, cases, risk_scores, alerts>>

\* the write of a batch that raises, 0 for none
MaxFailAt == 2

\* two regions registered for DENGUE; the seeded observations, and for both
\* regions the DENGUE observations upsert_cases wrote
InitStore ==
    /\ regions = <<[region_id |-> "R1", disease |-> "DENGUE"],
                   [region_id |-> "R2", disease |-> "DENGUE"]>>
    /\ cases = SeededCases
               \cup {[c EXCEPT !.region_id = r] :
                       c \in {x \in CaseInputs : x.disease = "DENGUE"}, r \in RegionIds}
    /\ risk_scores = <<>>
    /\ alerts = <<>>
    /\ forecasts = <<>>
    /\ last = NoCall

\* the batches of one pipeline run for DENGUE on 2024-03-31, each over a
\* store that may raise on one of its writes
ComputeRiskStore ==
    \E fail_at \in 0..MaxFailAt :
       /\ compute_risk_scores_store(DayOfYear(3, 31), "DENGUE", FALSE, fail_at)
       /\ Len(risk_scores') <= Len(regions)

GenerateAlertsStore ==
    \E fail_at \in 0..MaxFailAt :
       /\ generate_alerts_store(DayOfYear(3, 31), "DENGUE", fail_at)
       /\ Len(alerts') <= Len(regions)

GenerateForecastsStore ==
    \E fail_at \in 0..MaxFailAt :
       /\ generate_forecasts_store("generate_forecasts", DayOfYear(3, 31), MaxHorizon,
                                   "DENGUE", "yearly", FALSE, fail_at)
       /\ Len(forecasts') <= 3 * MaxHorizon

GenerateArimaForecastsStore ==
    \E fail_at \in 0..MaxFailAt :
       /\ generate_forecasts_store("generate_arima_forecasts", DayOfYear(3, 31),
                                   MaxHorizon, "DENGUE", "monthly", FALSE, fail_at)
       /\ Len(forecasts') <= 3 * MaxHorizon

NextStore ==
    \/ ComputeRiskStore
    \/ GenerateAlertsStore
    \/ GenerateForecastsStore
    \/ GenerateArimaForecastsStore

SpecStore == InitStore /\ [][NextStore]_vars

\* C11: in a batch in which a store write raised, the call raises instead of
\* returning, no region is counted as skipped on account of the failure, and
\* every record written before the failure is in the store.
C11_WriteFailureSurfaces ==
    (last.op # "init" /\ last.ret.write_failed) =>
       /\ last.ret.raised
       /\ LET col == IF last.op = "compute_risk_scores" THEN risk_scores
                     ELSE IF last.op = "generate_alerts" THEN alerts
                     ELSE forecasts
          IN \A k \in 1..Len(last.ret.written) :
                \E i \in 1..Len(col) :
                   /\ col[i].region_id = last.ret.written[k].region_id
                   /\ col[i].date = last.ret.written[k].date

(***************************************************************************)
(* evaluation.py: evaluate_forecast                                        *)
(***************************************************************************)
\* a metric of the result: None, or a number
Null == [null |-> TRUE, value |-> 0]

Number(x) == [null |-> FALSE, value |-> x]

\* an actual of 0 taken as a percentage error of 0
safe_mape_zero(actual, predicted) ==
    IF actual = 0 THEN Number(0)
    ELSE Number((Abs(actual - predicted) * 10000) \div actual)

\* safe_mape(actual, predicted), both in 1/1000 of a case: None for an actual
\* of 0, otherwise the percentage in 1/100 of a percent, truncated
safe_mape(actual, predicted) ==
    IF actual = 0 THEN Null
    ELSE Number((Abs(actual - predicted) * 10000) \div actual)

\* find(query).sort("date", ASCENDING).limit(n): every list the query may
\* return; the order among documents of equal date is open
RECURSIVE SortDateAscLimit(_, _)
SortDateAscLimit(docs, n) ==
    IF n = 0 \/ docs = {} THEN {<<>>}
    ELSE LET oldest == {x \in docs : \A y \in docs : x.date <= y.date}
         IN UNION {{<<x>> \o t : t \in SortDateAscLimit(docs \ {x}, n - 1)} :
                   x \in oldest}

\* cases_col.find_one({"region_id": region_id, "date": forecast_date}): every
\* document it may return, none when nothing matches
ActualCases(col, region_id, forecast_date) ==
    {c \in col : c.region_id = region_id /\ c.date = forecast_date}

\* the loop over the forecasts: every list of (forecast, actual) pairs it may
\* compare
RECURSIVE ComparedPairs(_, _)
ComparedPairs(fs, region_id) ==
    IF fs = <<>> THEN {<<>>}
    ELSE LET found == ActualCases(cases, region_id, Head(fs).date)
             rest == ComparedPairs(Tail(fs), region_id)
         IN IF found = {} THEN rest
            ELSE {<<[forecast |-> Head(fs), actual |-> a]>> \o t :
                    a \in found, t \in rest}

\* a result of zero error and no error string when no forecast was found
NoForecastsResultZero(region_id, horizon) ==
    [region_id |-> region_id, horizon |-> horizon, mae |-> Number(0),
     mape |-> Number(0), points_compared |-> 0, model_version |-> "naive_v1",
     error |-> "", dates_evaluated |-> <<>>, compared |-> <<>>]

\* if not forecasts: return {...}
NoForecastsResult(region_id, horizon) ==
    [region_id |-> region_id, horizon |-> horizon, mae |-> Null, mape |-> Null,
     points_compared |-> 0, model_version |-> "naive_v1",
     error |-> "No forecasts found for this region",
     dates_evaluated |-> <<>>, compared |-> <<>>]

\* the result of evaluate_forecast for the forecasts fs it read
EvaluationResult(region_id, horizon, fs, pairs) ==
    IF fs = <<>> THEN NoForecastsResult(region_id, horizon)
    ELSE LET errors == [k \in 1..Len(pairs) |->
                          Abs(pairs[k].actual.confirmed * 1000
                              - pairs[k].forecast.pred_mean)]
             all_mape == [k \in 1..Len(pairs) |->
                            safe_mape(pairs[k].actual.confirmed * 1000,
                                      pairs[k].forecast.pred_mean)]
             defined == SelectSeq(all_mape, LAMBDA m : ~m.null)
             mape_values == [k \in 1..Len(defined) |-> defined[k].value]
             points_compared == Len(errors)
         IN [region_id |-> region_id, horizon |-> horizon,
             \* round(sum(errors) / points_compared, 2), in 1/100 of a case
             mae |-> IF points_compared > 0
                     THEN Number(RoundDiv(SumSeq(errors), points_compared * 10))
                     ELSE Null,
             mape |-> IF mape_values # <<>>
                      THEN Number(RoundDiv(SumSeq(mape_values), Len(mape_values)))
                      ELSE Null,
             points_compared |-> points_compared,
             model_version |-> fs[1].model_version,
             error |-> "",
             dates_evaluated |-> [k \in 1..Len(pairs) |-> pairs[k].forecast.date],
             compared |-> pairs]

evaluate_forecast(region_id, date, horizon) ==
    LET query == {f \in SeqToSet(forecasts) :
                    /\ f.region_id = region_id
                    /\ (date # NoDate => f.date >= date)}
    IN /\ \E fs \in SortDateAscLimit(query, horizon) :
          \E pairs \in ComparedPairs(fs, region_id) :
             last' = [op |-> "evaluate_forecast",
                      args |-> [region_id |-> region_id, date |-> date,
                                horizon |-> horizon],
                      repeat |-> FALSE,
                      ret |-> EvaluationResult(region_id, horizon, fs, pairs)]
       /\ UNCHANGED <<regions, cases, risk_scores, alerts, forecasts>>

(***************************************************************************)
(* Forecasts evaluated against later observations                          *)
(***************************************************************************)
\* the observations of the days after 2024-03-31: none or two cases a day
ActualInputs ==
    {[region_id |-> "R1", date |-> d, disease |-> "DENGUE",
      granularity |-> NoGranularity, confirmed |-> n, deaths |-> 0] :
        d \in {DayOfYear(4, 1), DayOfYear(4, 2)}, n \in {0, 2}}

InitEval ==
    /\ regions = <<[region_id |-> "R1", disease |-> "DENGUE"]>>
    /\ cases = {c \in CaseInputs : c.disease = "DENGUE"}
    /\ risk_scores = <<>>
    /\ alerts = <<>>
    /\ forecasts = <<>>
    /\ last = NoCall

IngestActual ==
    \E case \in ActualInputs :
       /\ upsert_cases(case)
       /\ Cardinality(cases') <= 2 + MaxCases

GenerateForecastsEval ==
    \E target_date \in Dates :
       /\ generate_forecasts(target_date, MaxHorizon, "DENGUE", "yearly")
       /\ Len(forecasts') <= 2 * MaxHorizon

EvaluateForecast ==
    \E region_id \in RegionIds, date \in DateArgs \cup {DayOfYear(4, 1)},
       horizon \in 1..MaxHorizon :
       evaluate_forecast(region_id, date, horizon)

NextEval == IngestActual \/ GenerateForecastsEval \/ EvaluateForecast

SpecEval == InitEval /\ [][NextEval]_vars

\* C12: evaluate_forecast(region, date, horizon) compares only forecasts of
\* the region whose day lies in [date, date + horizon), each with an
\* observation of the region on the same day, and points_compared is the
\* number of forecast days in that window that have an observation.
C12_EvaluationWindow ==
    (last.op = "evaluate_forecast" /\ last.args.date # NoDate) =>
       LET lo == last.args.date
           hi == last.args.date + last.args.horizon
           days == {f.date : f \in {g \in SeqToSet(forecasts) :
                                      /\ g.region_id = last.args.region_id
                                      /\ g.date >= lo /\ g.date < hi
                                      /\ ActualCases(cases, g.region_id, g.date) # {}}}
       IN /\ \A k \in 1..Len(last.ret.compared) :
                LET p == last.ret.compared[k]
                IN /\ p.forecast.region_id = last.args.region_id
                   /\ p.forecast.date >= lo /\ p.forecast.date < hi
                   /\ p.actual.region_id = last.args.region_id
                   /\ p.actual.date = p.forecast.date
          /\ last.ret.points_compared = Cardinality(days)

\* C13: evaluate_forecast for a region without a stored forecast returns no
\* mae, no mape, points_compared 0 and an error string, and changes no store.
C13_EvaluateWithoutForecasts ==
    [][(/\ last'.op = "evaluate_forecast"
        /\ \A i \in 1..Len(forecasts) :
              forecasts[i].region_id # last'.args.region_id) =>
         /\ last'.ret.mae.null
         /\ last'.ret.mape.null
         /\ last'.ret.points_compared = 0
         /\ last'.ret.error # ""
         /\ UNCHANGED <<regions, cases, risk_scores, alerts, forecasts>>]_vars

\* a region without forecasts was evaluated while another region has some
C13_Witness ==
    /\ last.op = "evaluate_forecast"
    /\ forecasts # <<>>
    /\ \A i \in 1..Len(forecasts) : forecasts[i].region_id # last.args.region_id
    /\ last.ret.error # ""

\* the compared points of a result with an actual value other than 0
NonZeroActuals(pairs) == SelectSeq(pairs, LAMBDA p : p.actual.confirmed # 0)

\* |actual - predicted| of a compared point, in 1/1000 of a case
AbsError(p) == Abs(p.actual.confirmed * 1000 - p.forecast.pred_mean)

\* C14: points_compared counts every compared point and the MAE averages the
\* absolute error of every one of them, those with an actual value of 0
\* included; the MAPE averages the percentage error of the points with an
\* actual value other than 0 only, and is null when there is none.
C14_ZeroActuals ==
    (last.op = "evaluate_forecast" /\ last.ret.error = "") =>
       LET pairs == last.ret.compared
           nonzero == NonZeroActuals(pairs)
           errors == [k \in 1..Len(pairs) |-> AbsError(pairs[k])]
           pct == [k \in 1..Len(nonzero) |->
                     (AbsError(nonzero[k]) * 10000)
                        \div (nonzero[k].actual.confirmed * 1000)]
       IN /\ last.ret.points_compared = Len(pairs)
          /\ last.ret.mae.null <=> pairs = <<>>
          /\ pairs # <<>> =>
                last.ret.mae.value = RoundDiv(SumSeq(errors), Len(pairs) * 10)
          /\ last.ret.mape.null <=> nonzero = <<>>
          /\ nonzero # <<>> =>
                last.ret.mape.value = RoundDiv(SumSeq(pct), Len(nonzero))

\* two points were compared, one with an actual value of 0
C14_Witness ==
    /\ last.op = "evaluate_forecast"
    /\ last.ret.points_compared = 2
    /\ Len(NonZeroActuals(last.ret.compared)) = 1
    /\ ~last.ret.mae.null
    /\ ~last.ret.mape.null

(***************************************************************************)
(* Claims on the statistical strategy                                      *)
(***************************************************************************)
\* the records of a region among forecast records
OfRegion(col, region_id) == SelectSeq(col, LAMBDA f : f.region_id = region_id)

\* C15: in generate_arima_forecasts, a region with fewer than 10 selected
\* observations up to the date, or whose fit or prediction failed, gets no
\* record returned and its stored forecasts stay as they were; with fewer
\* than 10 observations no model is fitted.
C15_ArimaEmptyOnFailure ==
    [][last'.op = "generate_arima_forecasts" =>
         \A k \in 1..Len(last'.ret.fits) :
            LET fit == last'.ret.fits[k]
                available ==
                  {c \in Selected(cases, last'.args.disease, last'.args.granularity) :
                     c.region_id = fit.region_id /\ c.date <= last'.ret.date}
            IN /\ Cardinality(available) < 10 => ~fit.fitted
               /\ (Cardinality(available) < 10 \/ ~fit.fitted \/ ~fit.predicts) =>
                     /\ OfRegion(last'.ret.forecasts, fit.region_id) = <<>>
                     /\ OfRegion(forecasts', fit.region_id)
                           = OfRegion(forecasts, fit.region_id)]_vars

\* a model was fitted on a sufficient history and failed to predict, and the
\* forecasts stored before are still there
C15_Witness ==
    /\ last.op = "generate_arima_forecasts"
    /\ Len(last.ret.fits) = 1
    /\ last.ret.fits[1].read >= 10
    /\ last.ret.fits[1].fitted
    /\ ~last.ret.fits[1].predicts
    /\ last.ret.forecasts = <<>>
    /\ forecasts # <<>>

\* C16: every record generate_arima_forecasts returns for a region is tagged
\* sarima_v1 when the model fitted for the region was seasonal and arima_v1
\* when it was not.
C16_ModelVersionFollowsFit ==
    last.op = "generate_arima_forecasts" =>
       \A k \in 1..Len(last.ret.fits) :
          LET fit == last.ret.fits[k]
              docs == OfRegion(last.ret.forecasts, fit.region_id)
          IN \A i \in 1..Len(docs) :
                docs[i].model_version = IF fit.seasonal THEN MODEL_VERSION_SARIMA
                                        ELSE MODEL_VERSION_ARIMA

(***************************************************************************)
(* Two regions, both strategies: R1 has the seeded history, R2 has none;   *)
(* upsert_cases stores the counts it is given, of either sign.             *)
(***************************************************************************)
\* observations of 2024-03-31 as a loader hands them to upsert_cases
SignedCaseInputs ==
    {c \in [region_id : RegionIds, date : {DayOfYear(3, 31)}, disease : {"DENGUE"},
            granularity : {NoGranularity}, confirmed : {0 - 4, 3}, deaths : {0}] :
        c.region_id = "R2" => c.confirmed > 0}

InitBatch ==
    /\ regions = <<[region_id |-> "R1", disease |-> "DENGUE"],
                   [region_id |-> "R2", disease |-> "DENGUE"]>>
    /\ cases = SeededCases
    /\ risk_scores = <<>>
    /\ alerts = <<>>
    /\ forecasts = <<>>
    /\ last = NoCall

IngestSignedCase ==
    \E case \in SignedCaseInputs :
       /\ Cardinality({c \in cases : c.granularity = NoGranularity}) < MaxCases
       /\ upsert_cases(case)

ComputeRiskBatch ==
    \E use_climate_boost \in {FALSE} :
       /\ compute_risk_scores(DayOfYear(3, 31), "DENGUE", use_climate_boost)
       /\ Len(risk_scores') <= Len(regions)

GenerateForecastsBatch ==
    \E granularity \in {"yearly"} :
       /\ generate_forecasts(DayOfYear(3, 31), MaxHorizon, "DENGUE", granularity)
       /\ Len(forecasts') <= 4 * MaxHorizon

GenerateArimaForecastsBatch ==
    \E use_seasonal \in BOOLEAN :
       /\ generate_arima_forecasts(DayOfYear(3, 31), MaxHorizon, "DENGUE", "monthly",
                                   use_seasonal)
       /\ Len(forecasts') <= 4 * MaxHorizon

NextBatch ==
    \/ IngestSignedCase
    \/ ComputeRiskBatch
    \/ GenerateForecastsBatch
    \/ GenerateArimaForecastsBatch

SpecBatch == InitBatch /\ [][NextBatch]_vars

(***************************************************************************)
(* Claims on the two model families                                        *)
(***************************************************************************)
\* the records of the naive family, and those of the statistical family
NaiveRecords(col) == SelectSeq(col, LAMBDA f : f.model_version = MODEL_VERSION)

ArimaRecords(col) ==
    SelectSeq(col, LAMBDA f : f.model_version \in {MODEL_VERSION_ARIMA, MODEL_VERSION_SARIMA})

\* C17: generate_forecasts leaves every arima_v1/sarima_v1 record as it was,
\* generate_arima_forecasts leaves every naive record as it was, every record
\* an operation returns is in the store, and the store never holds two
\* records of the same (region, date, disease, model_version).
C17_FamiliesCoexist ==
    [][/\ last'.op = "generate_forecasts" => ArimaRecords(forecasts') = ArimaRecords(forecasts)
       /\ last'.op = "generate_arima_forecasts" =>
             NaiveRecords(forecasts') = NaiveRecords(forecasts)
       /\ last'.op \in ForecastOps =>
             SeqToSet(last'.ret.forecasts) \subseteq SeqToSet(forecasts')
       /\ \A i, j \in 1..Len(forecasts') :
             (/\ forecasts'[i].region_id = forecasts'[j].region_id
              /\ forecasts'[i].date = forecasts'[j].date
              /\ forecasts'[i].disease = forecasts'[j].disease
              /\ forecasts'[i].model_version = forecasts'[j].model_version) => i = j]_vars

\* both strategies have run for region R1 and 2024-04-01: the store holds a
\* naive, an arima_v1 and a sarima_v1 record of that day
C17_Witness ==
    /\ last.op \in ForecastOps
    /\ last.ret.forecasts # <<>>
    /\ \A v \in {MODEL_VERSION, MODEL_VERSION_ARIMA, MODEL_VERSION_SARIMA} :
          \E i \in 1..Len(forecasts) :
             /\ forecasts[i].region_id = "R1"
             /\ forecasts[i].date = DayOfYear(4, 1)
             /\ forecasts[i].disease = "DENGUE"
             /\ forecasts[i].model_version = v

\* C18: every stored forecast record has a non-negative predicted mean,
\* lower bound and upper bound.
C18_ForecastsNonNegative ==
    \A i \in 1..Len(forecasts) :
       /\ forecasts[i].pred_mean >= 0
       /\ forecasts[i].pred_lower >= 0
       /\ forecasts[i].pred_upper >= 0

(***************************************************************************)
(* Claims on the batch operations                                          *)
(***************************************************************************)
\* the positions of a batch: the region documents of the disease, in order
Iterated(disease) ==
    {i \in 1..Len(regions) : disease # NoDisease => regions[i].disease = disease}

\* the observations an operation may use for a region up to a date
Qualifying(op, region_id, date, args) ==
    {c \in (IF op = "compute_risk_scores"
            THEN {x \in cases : args.disease # NoDisease => x.disease = args.disease}
            ELSE Selected(cases, args.disease, args.granularity)) :
        c.region_id = region_id /\ c.date <= date}

\* the observations an operation needs before it produces a record
Needed(op) == IF op = "generate_arima_forecasts" THEN 10 ELSE 1

BatchOps == {"compute_risk_scores", "generate_forecasts", "generate_arima_forecasts"}

\* the records an operation returned, the store it writes, and its count of
\* regions left out
Returned(call) ==
    IF call.op = "compute_risk_scores" THEN call.ret.results ELSE call.ret.forecasts

LeftOut(call) ==
    IF call.op = "generate_arima_forecasts" THEN call.ret.failed ELSE call.ret.skipped

\* C19: in compute_risk_scores, generate_forecasts and generate_arima_forecasts
\* a region short of observations returns and stores nothing and is counted
\* as skipped, the other regions are processed and their records stored, and
\* the regions that produced records plus the regions skipped are the
\* regions iterated.
C19_BatchSkipsAndContinues ==
    [][(last'.op \in BatchOps /\ last'.ret.date # NoDate) =>
         LET call == last'
             op == call.op
             its == Iterated(call.args.disease)
             short == {i \in its :
                         Cardinality(Qualifying(op, regions[i].region_id, call.ret.date,
                                                call.args)) < Needed(op)}
             Store(v) == IF op = "compute_risk_scores" THEN v[3] ELSE v[5]
             Of(col, i) == SelectSeq(col, LAMBDA d : d.region_id = regions[i].region_id)
             produced == {i \in its : Of(Returned(call), i) # <<>>}
         IN /\ \A i \in short :
                  /\ Of(Returned(call), i) = <<>>
                  /\ (\A j \in its \ short : regions[j].region_id # regions[i].region_id)
                        => Of(Store(vars'), i) = Of(Store(vars), i)
            /\ Cardinality(short) <= LeftOut(call)
            /\ op # "generate_arima_forecasts" =>
                  /\ Cardinality(short) = LeftOut(call)
                  /\ produced = its \ short
            /\ Cardinality(produced) + LeftOut(call) = Cardinality(its)
            /\ SeqToSet(Returned(call)) \subseteq SeqToSet(Store(vars'))]_vars

\* a batch over R1 and R2 in which R2 had no observation: R1's records are
\* returned and stored, R2 is counted as skipped
C19_Witness ==
    /\ last.op \in {"compute_risk_scores", "generate_arima_forecasts"}
    /\ last.ret.date # NoDate
    /\ LeftOut(last) = 1
    /\ Returned(last) # <<>>
    /\ \A i \in 1..Len(Returned(last)) : Returned(last)[i].region_id = "R1"
    /\ Qualifying(last.op, "R2", last.ret.date, last.args) = {}

(***************************************************************************)
(* compute_risk_score on metrics of any sign and size                      *)
(***************************************************************************)
\* growth rates, volatilities and death ratios in 1/1000: negative, zero, at
\* the driver thresholds, and very large
GrowthRates == {0 - 2000, 0, 300, 1000, 1000000}

Volatilities == {0 - 500, 0, 150, 1000000}

DeathRatios == {0 - 10, 10, 20, 1000000}

\* no date, and a day of March, July and December
ScoreDates == {NoDate, DayOfYear(3, 31), DayOfYear(7, 15), DayOfYear(12, 1)}

MetricsInputs ==
    [region_id : {"R1"}, window_size : {7}, today_confirmed : {0}, past_confirmed : {0},
     growth_rate : GrowthRates, volatility_norm : Volatilities, death_ratio : DeathRatios]

InitScore ==
    /\ regions = <<>>
    /\ cases = {}
    /\ risk_scores = <<>>
    /\ alerts = <<>>
    /\ forecasts = <<>>
    /\ last = NoCall

ComputeRiskScore ==
    \E metrics \in MetricsInputs, target_date \in ScoreDates, use_climate_boost \in BOOLEAN :
       /\ last' = [op |-> "compute_risk_score",
                   args |-> [metrics |-> metrics, target_date |-> target_date,
                             use_climate_boost |-> use_climate_boost],
                   ret |-> compute_risk_score(metrics, target_date, use_climate_boost),
                   repeat |-> FALSE]
       /\ UNCHANGED <<regions, cases, risk_scores, alerts, forecasts>>

NextScore == ComputeRiskScore

SpecScore == InitScore /\ [][NextScore]_vars

\* C20: whatever the growth rate, volatility and death ratio, with the
\* climate adjustment on or off, compute_risk_score returns a score between
\* 0 and 1 and at least one driver.
C20_ScoreInUnitInterval ==
    last.op = "compute_risk_score" =>
       /\ last.ret.score >= 0
       /\ last.ret.score <= 1000000
       /\ Len(last.ret.drivers) >= 1

\* a July score has been computed, with the climate adjustment on, from a
\* negative volatility and a base below 1 whose product with 1.8 is above 1
C20_Witness ==
    /\ last.op = "compute_risk_score"
    /\ last.args.use_climate_boost
    /\ last.args.target_date = DayOfYear(7, 15)
    /\ last.args.metrics.volatility_norm < 0
    /\ last.ret.base_risk < 1000000
    /\ last.ret.base_risk * 18 > 10000000
    /\ last.ret.score = 1000000
    /\ Len(last.ret.drivers) >= 2

(***************************************************************************)
(* climate.py on date strings and on base scores                           *)
(***************************************************************************)
\* a date string "YYYY-MM-DD" by its three numbers
DaysInMonth(year, month) ==
    IF month = 2 THEN (IF year % 4 = 0 THEN 29 ELSE 28)
    ELSE IF month \in {4, 6, 9, 11} THEN 30 ELSE 31

\* a parser that takes any three numbers for a date
fromisoformat_lenient(date_str) == TRUE

\* datetime.fromisoformat(date_str) returns, and does not raise
fromisoformat(date_str) ==
    /\ date_str.month \in 1..12
    /\ date_str.day \in 1..DaysInMonth(date_str.year, date_str.month)

\* MONSOON_RISK_MULTIPLIERS.get(month, 1.0), in tenths
MultiplierOfMonth(month) ==
    IF month \in DOMAIN MONSOON_RISK_MULTIPLIERS THEN MONSOON_RISK_MULTIPLIERS[month]
    ELSE 10

\* get_climate_risk_multiplier on a date string: [raised, multiplier,
\* explanation]; month_names[month] raises inside the try for a month it
\* does not hold
climate_risk_multiplier(date_str) ==
    IF fromisoformat(date_str) /\ date_str.month \in 1..12
    THEN LET month == date_str.month
             multiplier == MultiplierOfMonth(month)
         IN [raised |-> FALSE, multiplier |-> multiplier,
             explanation |->
               [error |-> FALSE,
                season |-> IF month \in {6, 7, 8, 9} THEN "Monsoon"
                           ELSE IF month \in {10, 11} THEN "Post-monsoon"
                           ELSE IF month \in {3, 4, 5} THEN "Pre-monsoon"
                           ELSE "Winter",
                month |-> month,
                risk_level |-> IF multiplier >= 15 THEN "Very high"
                               ELSE IF multiplier >= 12 THEN "High"
                               ELSE IF multiplier >= 8 THEN "Moderate"
                               ELSE "Low"]]
    ELSE [raised |-> FALSE, multiplier |-> 10,
          explanation |-> [error |-> TRUE, season |-> "", month |-> 0,
                           risk_level |-> ""]]

\* date strings: two years, months 0..13, days around the ends of the months
DateStrings == [year : {2023, 2024}, month : 0..13, day : {0, 1, 15, 29, 30, 31, 32}]

\* base scores in 1/1000000, from 0 to 1
BaseScores == {0, 1, 100000, 500000, 555555, 555556, 600000, 900000, 999999, 1000000}

\* the fifteenth of every month of 2024
MonthDates == {DayOfYear(m, 15) : m \in 1..12}

InitClimate ==
    /\ regions = <<>>
    /\ cases = {}
    /\ risk_scores = <<>>
    /\ alerts = <<>>
    /\ forecasts = <<>>
    /\ last = NoCall

GetClimateRiskMultiplier ==
    \E date_str \in DateStrings :
       /\ last' = [op |-> "get_climate_risk_multiplier", args |-> [date_str |-> date_str],
                   ret |-> climate_risk_multiplier(date_str), repeat |-> FALSE]
       /\ UNCHANGED <<regions, cases, risk_scores, alerts, forecasts>>

CalculateWeatherAwareRisk ==
    \E base_risk \in BaseScores, date \in MonthDates :
       /\ last' = [op |-> "calculate_weather_aware_risk",
                   args |-> [base_risk |-> base_risk, date |-> date],
                   ret |-> calculate_weather_aware_risk(base_risk, date),
                   repeat |-> FALSE]
       /\ UNCHANGED <<regions, cases, risk_scores, alerts, forecasts>>

NextClimate == GetClimateRiskMultiplier \/ CalculateWeatherAwareRisk

SpecClimate == InitClimate /\ [][NextClimate]_vars

\* C21: for every base score in [0, 1] and every month's multiplier,
\* calculate_weather_aware_risk returns an adjusted score in [0, 1], and
\* exactly 1 when the base times the multiplier is above 1.
C21_AdjustedInUnitInterval ==
    last.op = "calculate_weather_aware_risk" =>
       LET b == last.args.base_risk
           m == MONSOON_RISK_MULTIPLIERS[MonthOf(last.args.date)]
       IN /\ last.ret.adjusted_risk >= 0
          /\ last.ret.adjusted_risk <= 1000000
          /\ b * m > 10000000 => last.ret.adjusted_risk = 1000000

\* a base of 0.6 has been adjusted in July, 0.6 * 1.8 being above 1
C21_Witness ==
    /\ last.op = "calculate_weather_aware_risk"
    /\ last.args.base_risk = 600000
    /\ MonthOf(last.args.date) = 7
    /\ last.ret.adjusted_risk = 1000000

\* C22: get_climate_risk_multiplier does not raise; for a valid date it
\* returns the multiplier of the date's month, between 0.5 and 1.8, whatever
\* the year and the day; for a malformed date it returns 1.0 and an
\* explanation of the failure.
C22_MultiplierNeverRaises ==
    last.op = "get_climate_risk_multiplier" =>
       LET s == last.args.date_str
           valid == /\ s.month \in 1..12
                    /\ s.day >= 1
                    /\ s.day <= DaysInMonth(s.year, s.month)
       IN /\ ~last.ret.raised
          /\ valid => /\ last.ret.multiplier >= 5
                      /\ last.ret.multiplier <= 18
                      /\ last.ret.multiplier = MONSOON_RISK_MULTIPLIERS[s.month]
                      /\ ~last.ret.explanation.error
          /\ ~valid => /\ last.ret.multiplier = 10
                       /\ last.ret.explanation.error

\* the multiplier of 2023-02-29, a day that does not exist, has been asked
C22_Witness ==
    /\ last.op = "get_climate_risk_multiplier"
    /\ last.args.date_str = [year |-> 2023, month |-> 2, day |-> 29]
    /\ last.ret.multiplier = 10
    /\ last.ret.explanation.error

(***************************************************************************)
(* Claims on the climate driver                                            *)
(***************************************************************************)
ClimateTexts == {"Climate boost", "Climate reduction", "Neutral climate impact"}

\* C23: with the climate adjustment on, the drivers of compute_risk_score hold
\* a climate explanation exactly when the adjusted score differs from the base
\* by more than 10% of the base: a boost text above +10%, a reduction text
\* below -10%, and never a neutral text.
C23_ClimateDriverThreshold ==
    (/\ last.op = "compute_risk_score"
     /\ last.args.use_climate_boost
     /\ last.args.target_date # NoDate) =>
       LET base == last.ret.base_risk
           change == last.ret.score - base
           drivers == last.ret.drivers
           climate == {i \in 1..Len(drivers) : drivers[i].text \in ClimateTexts}
           above == base > 0 /\ change * 100 > 10 * base
           below == base > 0 /\ change * 100 < 0 - 10 * base
       IN /\ (above \/ below) <=> climate # {}
          /\ above => \A i \in climate : drivers[i].text = "Climate boost"
          /\ below => \A i \in climate : drivers[i].text = "Climate reduction"
          /\ \A i \in climate : drivers[i].text # "Neutral climate impact"
          /\ Cardinality(climate) <= 1

\* a base of 0.95 has been adjusted in July to 1.0, a change of 5%: the
\* drivers hold no climate explanation
C23_Witness ==
    /\ last.op = "compute_risk_score"
    /\ last.args.use_climate_boost
    /\ last.args.target_date = DayOfYear(7, 15)
    /\ last.ret.base_risk = 950000
    /\ last.ret.score = 1000000
    /\ \A i \in 1..Len(last.ret.drivers) : last.ret.drivers[i].text \notin ClimateTexts

(***************************************************************************)
(* The naive strategy on a monthly history                                 *)
(***************************************************************************)
\* monthly DENGUE observations of R1: 80 on 2024-03-24, then 100, 110, 120,
\* 90, 95, 130 up to 2024-03-30, and 500 on 2024-04-01; two weekly ones
MonthlySeries == <<80, 100, 110, 120, 90, 95, 130>>

ExampleCases ==
    {[region_id |-> "R1", date |-> DayOfYear(3, 23) + i, disease |-> "DENGUE",
      granularity |-> "monthly", confirmed |-> MonthlySeries[i], deaths |-> 0] :
        i \in 1..Len(MonthlySeries)}
    \cup {[region_id |-> "R1", date |-> DayOfYear(4, 1), disease |-> "DENGUE",
           granularity |-> "monthly", confirmed |-> 500, deaths |-> 0],
          [region_id |-> "R1", date |-> DayOfYear(3, 29), disease |-> "DENGUE",
           granularity |-> "weekly", confirmed |-> 7, deaths |-> 0],
          [region_id |-> "R1", date |-> DayOfYear(3, 30), disease |-> "DENGUE",
           granularity |-> "weekly", confirmed |-> 9, deaths |-> 0]}

InitNaive ==
    /\ regions = <<[region_id |-> "R1", disease |-> "DENGUE"]>>
    /\ cases = ExampleCases
    /\ risk_scores = <<>>
    /\ alerts = <<>>
    /\ forecasts = <<>>
    /\ last = NoCall

IngestNaiveCase ==
    \E case \in {c \in CaseInputs : c.disease = "DENGUE"} :
       /\ Cardinality({c \in cases : c.granularity = NoGranularity}) < MaxCases
       /\ upsert_cases(case)

GenerateForecastsNaive ==
    \E target_date \in {NoDate, DayOfYear(3, 30), DayOfYear(3, 31)},
       horizon \in {MaxHorizon}, disease \in {"DENGUE", NoDisease},
       granularity \in Granularities :
       /\ generate_forecasts(target_date, horizon, disease, granularity)
       /\ Len(forecasts') <= MaxHorizon + 1

NextNaive == IngestNaiveCase \/ GenerateForecastsNaive

SpecNaive == InitNaive /\ [][NextNaive]_vars

\* the most recent n observations of a set: every choice among equal dates
MostRecent(Q, n) ==
    {W \in SUBSET Q :
       /\ Cardinality(W) = Min(n, Cardinality(Q))
       /\ \A w \in W, x \in Q \ W : x.date <= w.date}

\* the key and the numbers of forecast records
ForecastValues(fs) ==
    [i \in 1..Len(fs) |->
       <<fs[i].region_id, fs[i].date, fs[i].model_version, fs[i].pred_mean,
         fs[i].pred_lower, fs[i].pred_upper>>]

\* C24: generate_forecasts gives a region the mean of confirmed over its at
\* most 3 (yearly), 6 (monthly) or 12 (weekly) most recent selected
\* observations up to the date, with bounds of 0.90 and 1.10 times the mean;
\* it returns and stores one record for each of the horizon days after the
\* date, all with these values, and leaves every other record as it was.
C24_NaiveMeanForecast ==
    [][(last'.op = "generate_forecasts" /\ last'.ret.date # NoDate) =>
         LET a == last'.args
             T == last'.ret.date
             n == IF a.granularity = "yearly" THEN 3
                  ELSE IF a.granularity = "monthly" THEN 6 ELSE 12
             Q == {c \in Selected(cases, a.disease, a.granularity) :
                     c.region_id = "R1" /\ c.date <= T}
             out == last'.ret.forecasts
             Mine(f) == /\ f.region_id = "R1"
                        /\ f.model_version = MODEL_VERSION
                        /\ f.date \in (T + 1)..(T + a.horizon)
         IN /\ Q = {} => out = <<>> /\ forecasts' = forecasts
            /\ Q # {} =>
                 /\ Len(out) = a.horizon
                 /\ \A day \in 1..a.horizon : out[day].date = T + day
                 /\ \E W \in MostRecent(Q, n) :
                       LET m == (SumConfirmed(W) * 1000) \div Cardinality(W)
                       IN \A day \in 1..a.horizon :
                             /\ out[day].pred_mean = m
                             /\ out[day].pred_lower = (m * 90) \div 100
                             /\ out[day].pred_upper = (m * 110) \div 100
                 /\ Len(SelectSeq(forecasts', Mine)) = a.horizon
                 /\ SeqToSet(ForecastValues(SelectSeq(forecasts', Mine)))
                       = SeqToSet(ForecastValues(out))
                 /\ SelectSeq(forecasts', LAMBDA f : ~Mine(f))
                       = SelectSeq(forecasts, LAMBDA f : ~Mine(f))]_vars

\* the monthly history 100, 110, 120, 90, 95, 130 behind 2024-03-30 has given
\* 107.5, 96.75 and 118.25 on each of two days
C24_Witness ==
    /\ last.op = "generate_forecasts"
    /\ last.args.granularity = "monthly"
    /\ last.ret.date = DayOfYear(3, 30)
    /\ Len(last.ret.forecasts) = 2
    /\ \A i \in 1..2 : /\ last.ret.forecasts[i].pred_mean = 107500
                       /\ last.ret.forecasts[i].pred_lower = 96750
                       /\ last.ret.forecasts[i].pred_upper = 118250
                       /\ forecasts[i] = last.ret.forecasts[i]

(***************************************************************************)
(* upsert_cases on observations of several granularities                   *)
(***************************************************************************)
TaggedCaseInputs ==
    [region_id : {"R1"}, date : Dates, disease : Diseases,
     granularity : {NoGranularity, "monthly", "weekly"}, confirmed : {1, 3}, deaths : {0}]

InitCases ==
    /\ regions = <<>>
    /\ cases = {}
    /\ risk_scores = <<>>
    /\ alerts = <<>>
    /\ forecasts = <<>>
    /\ last = NoCall

IngestTaggedCase ==
    \E case \in TaggedCaseInputs :
       /\ Cardinality(cases) < MaxCases
       /\ upsert_cases(case)

NextCases == IngestTaggedCase

SpecCases == InitCases /\ [][NextCases]_vars

\* C25: after upsert_cases of an observation the store holds a row of its
\* region, date, disease and granularity, whatever rows of other
\* granularities it held for that region, date and disease.
C25_OneRowPerGranularity ==
    [][\A case \in TaggedCaseInputs :
          (/\ last'.op = "upsert_cases"
           /\ last'.args = [region_id |-> case.region_id, date |-> case.date,
                            disease |-> case.disease]
           /\ cases' = cases_update_one(cases, case)) =>
             \E c \in cases' : /\ c.region_id = case.region_id
                               /\ c.date = case.date
                               /\ c.disease = case.disease
                               /\ c.granularity = case.granularity]_vars

C27_UntaggedRunKeepsTaggedScores ==
    [][(last'.op = "compute_risk_scores" /\ last'.args.disease = NoDisease) =>
         \A i \in 1..Len(risk_scores) :
            risk_scores[i].disease \in Diseases =>
               /\ i <= Len(risk_scores')
               /\ risk_scores'[i].disease = risk_scores[i].disease
               /\ risk_scores'[i].risk_score = risk_scores[i].risk_score
               /\ risk_scores'[i].risk_level = risk_scores[i].risk_level
               /\ risk_scores'[i].drivers = risk_scores[i].drivers]_vars

(***************************************************************************)
(* Evaluation of a region that has forecasts of both families              *)
(***************************************************************************)
InitMixed ==
    /\ regions = <<[region_id |-> "R1", disease |-> "DENGUE"]>>
    /\ cases = SeededCases
    /\ risk_scores = <<>>
    /\ alerts = <<>>
    /\ forecasts = <<>>
    /\ last = NoCall

IngestActualMixed ==
    \E case \in ActualInputs :
       /\ Cardinality({c \in cases : c.granularity = NoGranularity}) < MaxCases
       /\ upsert_cases(case)

GenerateForecastsMixed ==
    /\ generate_forecasts(DayOfYear(3, 30), MaxHorizon, "DENGUE", "monthly")
    /\ Len(forecasts') <= 2 * MaxHorizon

GenerateArimaForecastsMixed ==
    /\ generate_arima_forecasts(DayOfYear(3, 30), MaxHorizon, "DENGUE", "monthly", FALSE)
    /\ Len(forecasts') <= 2 * MaxHorizon

EvaluateForecastMixed ==
    \E date \in {NoDate, DayOfYear(4, 1)}, horizon \in 1..(MaxHorizon + 1) :
       evaluate_forecast("R1", date, horizon)

NextMixed ==
    \/ IngestActualMixed
    \/ GenerateForecastsMixed
    \/ GenerateArimaForecastsMixed
    \/ EvaluateForecastMixed

SpecMixed == InitMixed /\ [][NextMixed]_vars

\* C28: every forecast compared in an evaluate_forecast call carries the
\* model_version the result reports, and no forecast date is compared twice.
C28_OneModelPerEvaluation ==
    last.op = "evaluate_forecast" =>
       LET compared == last.ret.compared
       IN \A i, j \in 1..Len(compared) :
             /\ compared[i].forecast.model_version = last.ret.model_version
             /\ compared[i].forecast.date = compared[j].forecast.date => i = j

(***************************************************************************)
(* The statistical strategy over a region with a long untagged history     *)
(***************************************************************************)
\* ten observations without a granularity tag (legacy yearly data) of R1 and
\* DENGUE, one per day up to 2024-03-30
YearlyCases ==
    {[region_id |-> "R1", date |-> d, disease |-> "DENGUE",
      granularity |-> NoGranularity, confirmed |-> 20 + (d % 4), deaths |-> 0] :
        d \in (DayOfYear(3, 30) - 9)..DayOfYear(3, 30)}

InitYearly ==
    /\ regions = <<[region_id |-> "R1", disease |-> "DENGUE"]>>
    /\ cases = SeededCases \cup YearlyCases
    /\ risk_scores = <<>>
    /\ alerts = <<>>
    /\ forecasts = <<>>
    /\ last = NoCall

IngestYearlyCase ==
    \E case \in CaseInputs :
       /\ Cardinality({c \in cases : c.granularity = NoGranularity})
            < Cardinality(YearlyCases) + MaxCases
       /\ upsert_cases(case)

GenerateArimaForecastsYearly ==
    \E target_date \in {NoDate, DayOfYear(3, 30)}, granularity \in Granularities,
       use_seasonal \in BOOLEAN :
       /\ generate_arima_forecasts(target_date, MaxHorizon, "DENGUE", granularity,
                                   use_seasonal)
       /\ Len(forecasts') <= 2 * MaxHorizon

NextYearly == IngestYearlyCase \/ GenerateArimaForecastsYearly

SpecYearly == InitYearly /\ [][NextYearly]_vars

\* the observations of a region that qualify for the last statistical batch
QualifyingHistory(region_id) ==
    HistoryQuery(cases, region_id, last.ret.date, last.args.disease,
                 last.args.granularity)

\* the fit or the prediction of a region was attempted and failed
FitFailed(fit) == fit.read >= MIN_ARIMA_POINTS /\ ~(fit.fitted /\ fit.predicts)

\* C29: for every granularity, a region with at least 10 qualifying
\* observations on or before the target date gets a non-empty statistical
\* forecast unless the model fit or the prediction failed
C29_TenObservationsSuffice ==
    last.op = "generate_arima_forecasts" =>
       \A i \in 1..Len(last.ret.fits) :
          LET fit == last.ret.fits[i]
          IN (/\ Cardinality(QualifyingHistory(fit.region_id)) >= MIN_ARIMA_POINTS
              /\ ~FitFailed(fit))
             => \E k \in 1..Len(last.ret.forecasts) :
                   last.ret.forecasts[k].region_id = fit.region_id

(***************************************************************************)
(* routes/pipeline.py: run_full_pipeline                                   *)
(***************************************************************************)
\* delete_many({"disease": disease})
DeleteOfDisease(col, disease) == SelectSeq(col, LAMBDA doc : doc.disease # disease)

\* one call of the route: the optional reset, then compute_risk_scores,
\* generate_alerts and generate_forecasts, each with target_date=None and each
\* over the store the step before left
run_full_pipeline(disease, reset, horizon, granularity) ==
    LET risk_start == IF reset THEN DeleteOfDisease(risk_scores, disease)
                      ELSE risk_scores
        alerts_start == IF reset THEN DeleteOfDisease(alerts, disease) ELSE alerts
        forecasts_start == IF reset THEN DeleteOfDisease(forecasts, disease)
                           ELSE forecasts
        risk_date == LatestDate({c \in cases : disease # NoDisease => c.disease = disease})
        risk_outs == IF risk_date = NoDate
                     THEN {[col |-> risk_start, results |-> <<>>, skipped |-> 0]}
                     ELSE RiskLoop(RegionsFor(regions, disease), risk_date, disease, TRUE,
                                   risk_start, [results |-> <<>>, skipped |-> 0])
        forecast_date == resolve_target_date(cases, NoDate, disease, granularity)
        forecast_outs == IF forecast_date = NoDate
                         THEN {[col |-> forecasts_start, results |-> <<>>,
                                skipped |-> 0, read |-> {}]}
                         ELSE ForecastLoop(RegionsFor(regions, disease), forecast_date,
                                           horizon, disease, granularity,
                                           forecasts_start,
                                           [col |-> <<>>, results |-> <<>>,
                                            skipped |-> 0, read |-> {}])
    IN /\ \E risk_out \in risk_outs, forecast_out \in forecast_outs :
            LET alert_date == AlertTargetDate(risk_out.col, NoDate, disease)
                alert_out == IF alert_date = NoDate
                             THEN [col |-> alerts_start, alerts |-> <<>>]
                             ELSE AlertLoop(SortByScoreDesc(
                                              RiskDocsFor(risk_out.col, alert_date,
                                                          disease)),
                                            alert_date, disease, alerts_start, <<>>)
            IN /\ risk_scores' = risk_out.col
               /\ alerts' = alert_out.col
               /\ forecasts' = forecast_out.col
               /\ last' = [op |-> "run_full_pipeline",
                           args |-> [disease |-> disease, reset |-> reset,
                                     horizon |-> horizon, granularity |-> granularity],
                           repeat |-> FALSE,
                           ret |-> [execution_date |-> risk_date,
                                    alert_date |-> alert_date,
                                    forecast_date |-> forecast_date,
                                    risk_scores |-> Len(risk_out.results),
                                    alerts |-> Len(alert_out.alerts),
                                    forecasts |-> Len(forecast_out.results)]]
       /\ UNCHANGED <<regions, cases>>

\* both diseases registered for R1 and observed on 2024-03-30
InitPipeline ==
    /\ regions = <<[region_id |-> "R1", disease |-> "DENGUE"],
                   [region_id |-> "R1", disease |-> "COVID"]>>
    /\ cases = {c \in CaseInputs : c.date = DayOfYear(3, 30)}
    /\ risk_scores = <<>>
    /\ alerts = <<>>
    /\ forecasts = <<>>
    /\ last = NoCall

IngestPipelineCase ==
    \E case \in CaseInputs :
       /\ Cardinality(cases) < 2 * MaxCases
       /\ upsert_cases(case)

\* POST /risk/compute for DENGUE with a date of the caller's choice
ComputeRiskForDate ==
    \E target_date \in Dates :
       /\ compute_risk_scores(target_date, "DENGUE", TRUE)
       /\ Len(risk_scores') <= 2 * MaxRiskDocs

RunFullPipeline ==
    \E disease \in Diseases, reset \in BOOLEAN :
       /\ run_full_pipeline(disease, reset, MaxHorizon, "yearly")
       /\ Len(risk_scores') <= 2 * MaxRiskDocs

NextPipeline == IngestPipelineCase \/ ComputeRiskForDate \/ RunFullPipeline

SpecPipeline == InitPipeline /\ [][NextPipeline]_vars

\* C30: in one run of the full pipeline the date generate_alerts resolves is
\* the date compute_risk_scores resolved, whatever scores earlier runs left
C30_AlertsOfSameRun ==
    last.op = "run_full_pipeline" => last.ret.alert_date = last.ret.execution_date

=============================================================================
